---- MODULE Spec2Model ----
(***************************************************************************)
(* A model of the Anki card generator (Houssem-25/anki_generator):         *)
(*   - the Word Provider (src/src/word_provider.py): reading the input     *)
(*     list, shuffling, the resume scan of the output file, filtering and  *)
(*     the file mode the application opens the output with;                *)
(*   - the token-bucket RateLimiter (src/src/llm.py);                      *)
(*   - the two paths on which a word reaches the LLM endpoint;             *)
(*   - the text-generation retry handling (src/src/word_processor.py);     *)
(*   - an application run (src/src/app.py): prerequisites, the word loop   *)
(*     and the output file;                                                *)
(*   - the GUI pipeline (src/src/main.py) and its stop check;              *)
(*   - the naming of a word's media and the run-then-resume round trip;    *)
(*   - the GUI window and its worker thread (src/src/gui.py);              *)
(*   - the progress updates of AnkiCardProcessor.process_words             *)
(*     (src/src/processor.py, src/src/structures.py).                      *)
(*                                                                         *)
(* Text is modelled as sequences of tokens.  A token is either a single    *)
(* character ("A", " ", ...) or one of the literal substrings the resume   *)
(* scan's regular expressions look for ("[sound:", ".mp3]", ...).  A line  *)
(* is a sequence of tokens without its newline; a file is a sequence of    *)
(* lines.                                                                  *)
(***************************************************************************)
EXTENDS Integers, Sequences, FiniteSets, TLC

VARIABLES
    input_exists,         \* the input path names an existing file
    input_file,           \* its lines
    output_exists,        \* the output path names an existing file
    output_file,          \* its lines
    wp_pc,                \* where the construction of the WordProvider stands
    original_words,       \* result of _read_input_words
    words_to_process,     \* WordProvider.words_to_process
    file_mode,            \* WordProvider.file_mode (decided by the resume scan)
    processed_words_set,  \* the identifiers the resume scan filtered with
    app_file_mode,        \* AnkiGeneratorApp.file_mode (from get_file_mode())
    now,                  \* time.time(), in ticks
    tokens,               \* RateLimiter.tokens, in units of 1/TicksPerToken token
    last_refill_time,     \* RateLimiter.last_refill_time
    rl_pc,                \* "idle", or "sleeping" inside a blocking consume
    call,                 \* the consume call in progress or last returned
    granted,              \* tokens handed out by successful consume calls so far
    fresh,                \* no consume call has been made on the bucket yet
    drained_at,           \* when the first call emptied the full bucket (-1: n/a)
    pipeline,             \* "service" (AnkiCardProcessor) or "cli" (WordProcessor)
    target_english,       \* the target language is English (no translation call)
    client_ready,         \* llm_generator.client was initialised
    pw_pc,                \* where the processing of the current word stands
    words_done,           \* words whose LLM step has ended
    requests,             \* chat-completion requests sent to the LLM endpoint
    groq_key,             \* GROQ_API_KEY is set in the environment
    cf_account,           \* CLOUDFLARE_ACCOUNT_ID is set
    cf_token,             \* CLOUDFLARE_API_TOKEN is set
    no_image,             \* args.no_image
    no_audio,             \* args.no_audio
    app_pc,               \* where AnkiGeneratorApp.run() stands
    can_generate_images,  \* AnkiGeneratorApp.can_generate_images
    words_iterator,       \* the words the loop has not dequeued yet
    handle_open,          \* AnkiGeneratorApp._output_file_handle is an open file
    successful_count,     \* AnkiGeneratorApp.successful_count
    failed_words,         \* AnkiGeneratorApp.failed_words
    handled,              \* the words dequeued so far and what became of each
    written,              \* the lines written through the handle in this run
    image_calls,          \* requests made to the image service
    app_exit,             \* how setup or the loop ended
    open_count,           \* times the output file was opened for writing
    stray_write,          \* how a write outside the with block went
    rt_pc,                \* which of the text-generation functions was called
    llm_outcome,          \* what the LLM request does, every time it is made
    err_detail,           \* the detail text of the error handed to the handler
    err_retries,          \* the retries argument of _handle_groq_error
    rt_client,            \* llm_generator.client was initialised
    rt_result,            \* what the called function returned or raised
    gui_pc,               \* where process_words_for_gui stands
    gui_words,            \* the words read from the input file
    gui_i,                \* words the loop has gone past
    has_stop_callback,    \* should_stop_callback was given
    with_images,          \* the with_images argument
    stop_checks,          \* calls of should_stop_callback so far
    stop_seen,            \* a call of should_stop_callback returned true
    gui_done,             \* the words processed so far and what became of each
    deck,                 \* the cards added to the deck builder
    deck_saved,           \* builder.save_to_file was called
    gui_result,           \* what process_words_for_gui returned
    nm_pc,                \* how far the naming of one word's media has got
    nm_word,              \* the word
    nm_once,              \* _sanitize_filename(word)
    nm_twice,             \* _sanitize_filename of that
    nm_line,              \* the record process_word builds for the word
    nm_next,              \* the words the next run schedules
    btn_enabled,          \* the Generate Cards button is enabled
    wk_started,           \* WorkerThreads started so far
    wk_pc,                \* where each WorkerThread stands
    wk_emits,             \* finished_signal emissions of each WorkerThread
    wk_path,              \* the path each WorkerThread's run() took
    pr_pc,                \* where AnkiCardProcessor.process_words stands
    pr_words,             \* its words argument
    pr_callback,          \* a progress_callback was given
    pr_i,                 \* the loop index i
    pr_progress,          \* the ProgressUpdate object of the current iteration
    pr_delivered,         \* what each call of progress_callback saw
    pr_stats              \* self.stats: processed_words, failed_words

wpVars == <<input_exists, input_file, output_exists, output_file, wp_pc,
            original_words, words_to_process, file_mode, processed_words_set,
            app_file_mode>>

rlVars == <<now, tokens, last_refill_time, rl_pc, call, granted, fresh, drained_at>>

pwVars == <<pipeline, target_english, client_ready, pw_pc, words_done, requests>>

credVars == <<groq_key, cf_account, cf_token, no_image, no_audio>>

appVars == <<credVars, app_pc, can_generate_images, words_iterator, handle_open,
             successful_count, failed_words, handled, written, image_calls,
             app_exit, open_count, stray_write>>

rtVars == <<rt_pc, llm_outcome, err_detail, err_retries, rt_client, rt_result>>

guiVars == <<gui_pc, gui_words, gui_i, has_stop_callback, with_images,
             stop_checks, stop_seen, gui_done, deck, deck_saved, gui_result>>

nmVars == <<nm_pc, nm_word, nm_once, nm_twice, nm_line, nm_next>>

wkVars == <<btn_enabled, wk_started, wk_pc, wk_emits, wk_path>>

prVars == <<pr_pc, pr_words, pr_callback, pr_i, pr_progress, pr_delivered, pr_stats>>

lateVars == <<nmVars, wkVars, prVars>>

moreVars == <<appVars, rtVars, guiVars, lateVars>>

vars == <<wpVars, rlVars, pwVars, moreVars>>

\* what the Word Provider's steps, the rate limiter's and the LLM step's leave
\* alone
notWP == <<rlVars, pwVars, moreVars>>
notRL == <<wpVars, pwVars, moreVars>>
notGate == <<wpVars, moreVars>>

-----------------------------------------------------------------------------
(* Bounds *)

MaxInputLines == 4
MaxOutputLines == 2
\* RateLimiter(capacity, refill_rate): the bucket holds Capacity tokens and one
\* token accrues every TicksPerToken clock ticks (refill_rate = 1/TicksPerToken
\* tokens per tick); token counts are kept in units of 1/TicksPerToken token, so
\* that one unit accrues per tick and fractional token counts are exact
Capacity == 3
TicksPerToken == 2
MaxTime == 8
MaxOversleep == 1
\* words taken through the LLM step in one run
MaxWords == 2
\* words of the input file of an application run
MaxLoopWords == 2
\* words of the input file of a run of the GUI pipeline
MaxGuiWords == 3
\* characters of a word whose media are named
MaxNameLen == 3
\* clicks on Generate Cards that start a worker
MaxRuns == 3
\* words handed to AnkiCardProcessor.process_words
MaxProgressWords == 3

-----------------------------------------------------------------------------
(* Generic helpers *)

Range(s) == {s[i] : i \in DOMAIN s}

SeqsUpTo(S, n) == UNION {[1..k -> S] : k \in 0..n}

Count(s, x) == Cardinality({i \in DOMAIN s : s[i] = x})

MinOf(S) == CHOOSE x \in S : \A y \in S : x <= y

MaxOf(S) == CHOOSE x \in S : \A y \in S : y <= x

-----------------------------------------------------------------------------
(* Tokens *)

Whitespace == {" "}

SOUND_OPEN == "[sound:"
SOUND_CLOSE == ".mp3]"
IMG_OPEN == "<img src=\""
IMG_CLOSE == ".png\">"
\* a byte sequence that is not valid UTF-8: decoding it raises UnicodeDecodeError
UNDECODABLE == "0xFF"

-----------------------------------------------------------------------------
(* WordProvider._read_input_words *)

\* a strip that only drops leading whitespace (lstrip)
Strip_LeadingOnly(line) ==
    LET keep == {i \in DOMAIN line : line[i] \notin Whitespace}
    IN  IF keep = {} THEN <<>> ELSE SubSeq(line, MinOf(keep), Len(line))

\* str.strip(): drop leading and trailing whitespace
Strip(line) ==
    LET keep == {i \in DOMAIN line : line[i] \notin Whitespace}
    IN  IF keep = {} THEN <<>> ELSE SubSeq(line, MinOf(keep), MaxOf(keep))

\* [line.strip() for line in infile if line.strip()]
RECURSIVE StrippedNonBlank(_)
StrippedNonBlank(lines) ==
    IF lines = <<>> THEN <<>>
    ELSE LET w == Strip(Head(lines))
         IN  IF w # <<>> THEN <<w>> \o StrippedNonBlank(Tail(lines))
                         ELSE StrippedNonBlank(Tail(lines))

\* outcome of _read_input_words: the words, or how the call ends
ReadInputWords(exists, lines) ==
    IF ~exists THEN [outcome |-> "FileNotFoundError", words |-> <<>>]
    ELSE LET ws == StrippedNonBlank(lines)
         IN  IF ws = <<>> THEN [outcome |-> "SystemExit", words |-> <<>>]
                          ELSE [outcome |-> "ok", words |-> ws]

-----------------------------------------------------------------------------
(* WordProvider._determine_words_to_process *)

\* a draw with replacement (random.choices) instead of a shuffle
Shuffles_WithReplacement(s) ==
    IF s = <<>> THEN {<<>>}
    ELSE {[i \in DOMAIN s |-> s[p[i]]] : p \in [DOMAIN s -> DOMAIN s]}

\* random.shuffle: any rearrangement of the list
Shuffles(s) ==
    IF s = <<>> THEN {<<>>}
    ELSE {[i \in DOMAIN s |-> s[p[i]]] : p \in Permutations(DOMAIN s)}

\* re.search(open (.*?) close, line).group(1): the leftmost opening literal that
\* has a closing literal after it, up to the first such closing literal
HasMarker(line, open, close) ==
    \E i \in DOMAIN line : \E j \in DOMAIN line :
        i < j /\ line[i] = open /\ line[j] = close

MarkerGroup(line, open, close) ==
    LET starts == {i \in DOMAIN line :
                     line[i] = open /\ \E j \in DOMAIN line : j > i /\ line[j] = close}
        i == MinOf(starts)
        j == MinOf({k \in DOMAIN line : k > i /\ line[k] = close})
    IN  SubSeq(line, i + 1, j - 1)

\* a scan without the 'continue': a line with both tags contributes both names
LineIds_BothTags(line) ==
    (IF HasMarker(line, SOUND_OPEN, SOUND_CLOSE)
        THEN {MarkerGroup(line, SOUND_OPEN, SOUND_CLOSE)} ELSE {})
    \cup (IF HasMarker(line, IMG_OPEN, IMG_CLOSE)
        THEN {MarkerGroup(line, IMG_OPEN, IMG_CLOSE)} ELSE {})

\* the identifier one line contributes: sound tag first, image tag as fallback
LineIds(line) ==
    IF HasMarker(line, SOUND_OPEN, SOUND_CLOSE)
        THEN {MarkerGroup(line, SOUND_OPEN, SOUND_CLOSE)}
    ELSE IF HasMarker(line, IMG_OPEN, IMG_CLOSE)
        THEN {MarkerGroup(line, IMG_OPEN, IMG_CLOSE)}
    ELSE {}

Undecodable(line) == \E i \in DOMAIN line : line[i] = UNDECODABLE

\* the try block: [raised, set collected so far, mode]
ResumeScan(exists, lines) ==
    IF exists /\ lines # <<>> THEN
        LET bad == {i \in DOMAIN lines : Undecodable(lines[i])}
            upto == IF bad = {} THEN Len(lines) ELSE MinOf(bad) - 1
            found == UNION {LineIds(lines[i]) : i \in 1..upto}
        IN  IF bad # {} THEN [raised |-> TRUE, set |-> found, mode |-> "w"]
            ELSE [raised |-> FALSE, set |-> found,
                  mode |-> IF found # {} THEN "a" ELSE "w"]
    ELSE [raised |-> FALSE, set |-> {}, mode |-> "w"]

\* the membership test inverted: keeps the processed words
FilterWords_Inverted(shuffled, set) == SelectSeq(shuffled, LAMBDA w : w \in set)

\* [word for word in shuffled_words if word not in processed_words_set]
FilterWords(shuffled, set) == SelectSeq(shuffled, LAMBDA w : w \notin set)

\* an except clause that forgets processed_words_set.clear()
DetermineWordsToProcess_KeepsPartial(shuffled, exists, lines) ==
    LET scan == ResumeScan(exists, lines)
        mode == IF scan.raised THEN "w" ELSE scan.mode
    IN  [words |-> FilterWords(shuffled, scan.set), mode |-> mode, set |-> scan.set]

DetermineWordsToProcess(shuffled, exists, lines) ==
    LET scan == ResumeScan(exists, lines)
        set == IF scan.raised THEN {} ELSE scan.set
        mode == IF scan.raised THEN "w" ELSE scan.mode
    IN  [words |-> FilterWords(shuffled, set), mode |-> mode, set |-> set]

\* a get_file_mode that returns the mode the resume scan decided
GetFileMode_FromScan(exists, lines) ==
    LET scan == ResumeScan(exists, lines)
    IN  IF scan.raised THEN "w" ELSE scan.mode

\* WordProvider.get_file_mode
GetFileMode(exists, lines) ==
    IF ~exists \/ lines = <<>> THEN "w" ELSE "a"

-----------------------------------------------------------------------------
(* Inputs of the Word Provider *)

\* lines of an input file exercising strip() and the blank-line filter
ReadLineChoices ==
    {<<>>, <<" ">>, <<"A">>, <<" ", "B", " ">>, <<"A", " ", "B">>}

\* words of an input file for the resume scenarios, in a fixed order
ResumeWords == <<(<<"A">>), (<<"B">>), (<<"C">>), (<<"D">>)>>

SoundLine(w) == <<"x", ";", SOUND_OPEN>> \o w \o <<SOUND_CLOSE, "x">>
ImgLine(w) == <<IMG_OPEN>> \o w \o <<IMG_CLOSE, "x", ";", "x">>
BothLine(wi, ws) ==
    <<IMG_OPEN>> \o wi \o <<IMG_CLOSE, "x", ";", SOUND_OPEN>> \o ws \o <<SOUND_CLOSE, "x">>

OutputLineChoices ==
    {<<"x", ";", "x">>,
     SoundLine(<<"A">>), SoundLine(<<"B">>),
     ImgLine(<<"C">>),
     BothLine(<<"A">>, <<"Z">>),
     <<"x", UNDECODABLE>>}

\* input lists of the resume scenarios: the shuffle makes the order of the
\* file irrelevant, so one file per multiset of words (non-decreasing order)
SortedIndexSeqs ==
    {g \in UNION {[1..k -> DOMAIN ResumeWords] : k \in 1..MaxInputLines} :
        \A i \in DOMAIN g : \A j \in DOMAIN g : i < j => g[i] <= g[j]}

SortedWordFiles == {[i \in DOMAIN g |-> ResumeWords[g[i]]] : g \in SortedIndexSeqs}

-----------------------------------------------------------------------------
(* Word Provider: construction (WordProvider.__init__) and app.setup *)

\* no application run is modelled
AppOff ==
    /\ groq_key = FALSE
    /\ cf_account = FALSE
    /\ cf_token = FALSE
    /\ no_image = FALSE
    /\ no_audio = FALSE
    /\ app_pc = "off"
    /\ can_generate_images = FALSE
    /\ words_iterator = <<>>
    /\ handle_open = FALSE
    /\ successful_count = 0
    /\ failed_words = <<>>
    /\ handled = <<>>
    /\ written = <<>>
    /\ image_calls = 0
    /\ app_exit = "none"
    /\ open_count = 0
    /\ stray_write = "none"

\* no text-generation function is being exercised
RTOff ==
    /\ rt_pc = "off"
    /\ llm_outcome = "none"
    /\ err_detail = <<>>
    /\ err_retries = 0
    /\ rt_client = FALSE
    /\ rt_result = <<>>

\* no GUI pipeline is running
GuiOff ==
    /\ gui_pc = "off"
    /\ gui_words = <<>>
    /\ gui_i = 0
    /\ has_stop_callback = FALSE
    /\ with_images = FALSE
    /\ stop_checks = 0
    /\ stop_seen = FALSE
    /\ gui_done = <<>>
    /\ deck = <<>>
    /\ deck_saved = FALSE
    /\ gui_result = "none"

\* no word is being named
NamesOff ==
    /\ nm_pc = "off"
    /\ nm_word = <<>>
    /\ nm_once = <<>>
    /\ nm_twice = <<>>
    /\ nm_line = <<>>
    /\ nm_next = <<>>

\* no GUI window exists
WorkerOff ==
    /\ btn_enabled = FALSE
    /\ wk_started = 0
    /\ wk_pc = <<>>
    /\ wk_emits = <<>>
    /\ wk_path = <<>>

\* process_words is not running
ProgressOff ==
    /\ pr_pc = "off"
    /\ pr_words = <<>>
    /\ pr_callback = FALSE
    /\ pr_i = 0
    /\ pr_progress = <<>>
    /\ pr_delivered = <<>>
    /\ pr_stats = <<>>

LateOff == NamesOff /\ WorkerOff /\ ProgressOff

MoreOff == AppOff /\ RTOff /\ GuiOff /\ LateOff

\* no word is being processed
PWOff ==
    /\ pipeline = "none"
    /\ target_english = TRUE
    /\ client_ready = FALSE
    /\ pw_pc = "off"
    /\ words_done = 0
    /\ requests = 0

\* the part of the state the Word Provider does not use
RLOff ==
    /\ now = 0
    /\ tokens = 0
    /\ last_refill_time = 0
    /\ rl_pc = "off"
    /\ call = <<>>
    /\ granted = 0
    /\ fresh = FALSE
    /\ drained_at = -1

WPFresh ==
    /\ wp_pc = "new"
    /\ original_words = <<>>
    /\ words_to_process = <<>>
    /\ file_mode = "w"
    /\ processed_words_set = {}
    /\ app_file_mode = "none"

\* any input file of ReadLineChoices lines (or none), no output or an empty one
InitRead ==
    /\ input_exists \in BOOLEAN
    /\ input_file \in SeqsUpTo(ReadLineChoices, MaxInputLines)
    /\ (~input_exists => input_file = <<>>)
    /\ output_exists \in BOOLEAN
    /\ output_file = <<>>
    /\ WPFresh

\* an input list of plain words and any output file of OutputLineChoices lines
InitResume ==
    /\ input_exists = TRUE
    /\ input_file \in SortedWordFiles
    /\ output_exists \in BOOLEAN
    /\ output_file \in SeqsUpTo(OutputLineChoices, MaxOutputLines)
    /\ (~output_exists => output_file = <<>>)
    /\ WPFresh

InitWP == (InitRead \/ InitResume) /\ RLOff /\ PWOff /\ MoreOff

\* _load_and_filter_words, first half: _read_input_words
ReadInput ==
    /\ wp_pc = "new"
    /\ LET r == ReadInputWords(input_exists, input_file)
       IN  /\ original_words' = r.words
           /\ wp_pc' = IF r.outcome = "ok" THEN "read" ELSE r.outcome
    /\ UNCHANGED <<input_exists, input_file, output_exists, output_file,
                   words_to_process, file_mode, processed_words_set, app_file_mode>>
    /\ UNCHANGED notWP

\* _load_and_filter_words, second half: _determine_words_to_process
DetermineWords ==
    /\ wp_pc = "read"
    /\ \E shuffled \in Shuffles(original_words) :
          LET r == DetermineWordsToProcess(shuffled, output_exists, output_file)
          IN  /\ words_to_process' = r.words
              /\ file_mode' = r.mode
              /\ processed_words_set' = r.set
    /\ wp_pc' = "constructed"
    /\ UNCHANGED <<input_exists, input_file, output_exists, output_file,
                   original_words, app_file_mode>>
    /\ UNCHANGED notWP

\* AnkiGeneratorApp.setup: self.file_mode = self.word_provider.get_file_mode()
SetupFileMode ==
    /\ wp_pc = "constructed"
    /\ app_file_mode' = GetFileMode(output_exists, output_file)
    /\ wp_pc' = "setup"
    /\ UNCHANGED <<input_exists, input_file, output_exists, output_file,
                   original_words, words_to_process, file_mode, processed_words_set>>
    /\ UNCHANGED notWP

NextWP == ReadInput \/ DetermineWords \/ SetupFileMode

SpecWP == InitWP /\ [][NextWP]_vars

-----------------------------------------------------------------------------
(* RateLimiter (src/src/llm.py) *)

Unit == TicksPerToken
CapacityUnits == Capacity * Unit

\* the token amounts a caller may ask for: up to more than the bucket holds
Amounts == 1..(Capacity + 1)

Min2(a, b) == IF a <= b THEN a ELSE b

\* a refill without the cap
Refill_Uncapped(tok, last, t) ==
    LET new_tokens == t - last
    IN  IF new_tokens > 0
        THEN [tokens |-> tok + new_tokens, last |-> t]
        ELSE [tokens |-> tok, last |-> last]

\* a refill that forgets to advance last_refill_time
Refill_KeepsTimestamp(tok, last, t) ==
    LET new_tokens == t - last
    IN  IF new_tokens > 0
        THEN [tokens |-> Min2(CapacityUnits, tok + new_tokens), last |-> last]
        ELSE [tokens |-> tok, last |-> last]

\* a refill that applies the elapsed time whatever its sign
Refill_Signed(tok, last, t) ==
    [tokens |-> Min2(CapacityUnits, tok + (t - last)), last |-> t]

\* RateLimiter._refill at clock reading t: elapsed * refill_rate is (t - last) units
Refill(tok, last, t) ==
    LET new_tokens == t - last
    IN  IF new_tokens > 0
        THEN [tokens |-> Min2(CapacityUnits, tok + new_tokens), last |-> t]
        ELSE [tokens |-> tok, last |-> last]

\* the comparison made strict
Enough_Strict(n, tok) == n * Unit < tok

\* tokens <= self.tokens
Enough(n, tok) == n * Unit <= tok

\* a wait that is one tick short
WaitTime_Short(n, tok) == n * Unit - tok - 1

\* wait_time = (tokens - self.tokens) / self.refill_rate, in ticks
WaitTime(n, tok) == n * Unit - tok

\* a call record: the arguments, when the call began and returned, the token
\* count after the first refill, the sleeps made and the sleep asked for, and
\* the call's place in the drain-then-retry sequence (since: ticks since the drain)
NoCall == [n |-> 0, block |-> FALSE, done |-> FALSE, ok |-> FALSE, begun |-> 0,
           ended |-> 0, after_refill |-> 0, slept |-> 0, wait |-> 0,
           scenario |-> "none", since |-> -1]

\* RateLimiter.__init__ at time 0
RLFresh ==
    /\ now = 0
    /\ tokens = CapacityUnits
    /\ last_refill_time = 0
    /\ rl_pc = "idle"
    /\ call = NoCall
    /\ granted = 0
    /\ fresh = TRUE
    /\ drained_at = -1

\* the clock advances while no consume call is in progress
ClockTick ==
    /\ rl_pc = "idle"
    /\ now < MaxTime
    /\ now' = now + 1
    /\ UNCHANGED <<tokens, last_refill_time, rl_pc, call, granted, fresh, drained_at>>

\* time passes between two calls
Tick == ClockTick /\ UNCHANGED notRL

\* which step of the drain-then-retry sequence a call is
ScenarioOf(n, block) ==
    IF fresh /\ ~block /\ n = Capacity THEN "drain"
    ELSE IF drained_at >= 0 /\ ~block /\ n = 1 THEN "retry"
    ELSE "none"

\* consume(n, block) up to its first return or to the start of its sleep
ConsumeCall(n, block) ==
    /\ rl_pc = "idle"
    /\ LET r == Refill(tokens, last_refill_time, now)
           c == [n |-> n, block |-> block, begun |-> now, after_refill |-> r.tokens,
                 scenario |-> ScenarioOf(n, block),
                 since |-> IF ScenarioOf(n, block) = "retry" THEN now - drained_at ELSE -1,
                 ended |-> now]
       IN  /\ last_refill_time' = r.last
           /\ IF Enough(n, r.tokens) THEN
                 /\ tokens' = r.tokens - n * Unit
                 /\ call' = c @@ [done |-> TRUE, ok |-> TRUE, slept |-> 0, wait |-> 0]
                 /\ granted' = granted + n
                 /\ rl_pc' = "idle"
                 /\ drained_at' = IF c.scenario = "drain" THEN now ELSE -1
              ELSE IF ~block THEN
                 /\ tokens' = r.tokens
                 /\ call' = c @@ [done |-> TRUE, ok |-> FALSE, slept |-> 0, wait |-> 0]
                 /\ granted' = granted
                 /\ rl_pc' = "idle"
                 /\ drained_at' = drained_at
              ELSE
                 /\ now + WaitTime(n, r.tokens) <= MaxTime
                 /\ tokens' = r.tokens
                 /\ call' = c @@ [done |-> FALSE, ok |-> FALSE, slept |-> 1,
                                  wait |-> WaitTime(n, r.tokens)]
                 /\ granted' = granted
                 /\ rl_pc' = "sleeping"
                 /\ drained_at' = -1
    /\ fresh' = FALSE
    /\ UNCHANGED now

\* time.sleep(wait_time) returns (not before wait_time has passed); consume
\* refills, subtracts and returns True
WakeUp ==
    /\ rl_pc = "sleeping"
    /\ \E over \in 0..MaxOversleep :
          LET t == now + call.wait + over
              r == Refill(tokens, last_refill_time, t)
          IN  /\ t <= MaxTime
              /\ now' = t
              /\ tokens' = r.tokens - call.n * Unit
              /\ last_refill_time' = r.last
              /\ call' = [call EXCEPT !.done = TRUE, !.ok = TRUE, !.ended = t]
    /\ granted' = granted + call.n
    /\ rl_pc' = "idle"
    /\ UNCHANGED <<fresh, drained_at>>

\* a sleeping caller of consume resumes
ConsumeWake == WakeUp /\ UNCHANGED notRL

\* a caller asks for any amount, blocking or not
Consume ==
    /\ \E n \in Amounts : \E block \in BOOLEAN : ConsumeCall(n, block)
    /\ UNCHANGED notRL

\* the part of the state the rate limiter does not use
WPOff ==
    /\ input_exists = FALSE
    /\ input_file = <<>>
    /\ output_exists = FALSE
    /\ output_file = <<>>
    /\ wp_pc = "off"
    /\ original_words = <<>>
    /\ words_to_process = <<>>
    /\ file_mode = "w"
    /\ processed_words_set = {}
    /\ app_file_mode = "none"

InitRL == RLFresh /\ WPOff /\ PWOff /\ MoreOff

NextRL == Tick \/ Consume \/ ConsumeWake

SpecRL == InitRL /\ [][NextRL]_vars

\* a sleeping thread wakes up
FairSpecRL == SpecRL /\ WF_vars(ConsumeWake)

\* _refill on its own, under a wall clock (time.time()) that may also be set
\* back: any clock reading, any earlier refill time, any token count the
\* bucket can hold (down to the deficit a blocking consume can leave)
InitRefill ==
    /\ now \in 0..MaxTime
    /\ last_refill_time \in 0..MaxTime
    /\ tokens \in (0 - Unit)..CapacityUnits
    /\ rl_pc = "before_refill"
    /\ call = NoCall
    /\ granted = 0
    /\ fresh = FALSE
    /\ drained_at = -1
    /\ WPOff /\ PWOff /\ MoreOff

\* self._refill(): the call records what it found
CallRefill ==
    /\ rl_pc = "before_refill"
    /\ LET r == Refill(tokens, last_refill_time, now)
       IN  /\ tokens' = r.tokens
           /\ last_refill_time' = r.last
    /\ call' = [tokens |-> tokens, last |-> last_refill_time, at |-> now]
    /\ rl_pc' = "after_refill"
    /\ UNCHANGED <<now, granted, fresh, drained_at>>
    /\ UNCHANGED notRL

\* the wall clock moves, forwards or backwards, before the next refill
ClockJump ==
    /\ rl_pc = "after_refill"
    /\ \E t \in 0..MaxTime : t # now /\ now' = t
    /\ call' = NoCall
    /\ rl_pc' = "before_refill"
    /\ UNCHANGED <<tokens, last_refill_time, granted, fresh, drained_at>>
    /\ UNCHANGED notRL

NextRefill == CallRefill \/ ClockJump

SpecRefill == InitRefill /\ [][NextRefill]_vars

-----------------------------------------------------------------------------
(* The LLM step of one word, on both pipelines *)

\* the word's LLM step ends (with or without data)
WordEnds ==
    /\ pw_pc' = "next"
    /\ words_done' = words_done + 1

\* GroqLLMService.process_word / _translate_word_data: rate_limiter.consume(1, block=True)
GateConsume(then) ==
    /\ ConsumeCall(1, TRUE)
    /\ pw_pc' = IF rl_pc' = "sleeping" THEN "wait_" \o then ELSE then

\* GroqLLMService.process_word, llm.py:80
SvcConsume ==
    /\ pipeline = "service"
    /\ pw_pc = "next"
    /\ words_done < MaxWords
    /\ GateConsume("generate")
    /\ UNCHANGED <<pipeline, target_english, client_ready, words_done, requests>>
    /\ UNCHANGED notGate

\* the blocking consume of either call returns
SvcConsumeWake ==
    /\ pw_pc \in {"wait_generate", "wait_translate"}
    /\ WakeUp
    /\ pw_pc' = IF pw_pc = "wait_generate" THEN "generate" ELSE "translate"
    /\ UNCHANGED <<pipeline, target_english, client_ready, words_done, requests>>
    /\ UNCHANGED notGate

\* GroqLLMService._generate_content: the request, answered or failing
SvcGenerateContent ==
    /\ pw_pc = "generate"
    /\ requests' = requests + 1
    /\ \E answered \in BOOLEAN :
          IF answered /\ ~target_english
          THEN pw_pc' = "gate_translate" /\ UNCHANGED words_done
          ELSE WordEnds
    /\ UNCHANGED <<pipeline, target_english, client_ready>>
    /\ UNCHANGED <<notGate, rlVars>>

\* GroqLLMService._translate_word_data, llm.py:296
SvcTranslateConsume ==
    /\ pw_pc = "gate_translate"
    /\ GateConsume("translate")
    /\ UNCHANGED <<pipeline, target_english, client_ready, words_done, requests>>
    /\ UNCHANGED notGate

\* GroqLLMService._translate_word_data: the request, answered or failing
SvcTranslate ==
    /\ pw_pc = "translate"
    /\ requests' = requests + 1
    /\ WordEnds
    /\ UNCHANGED <<pipeline, target_english, client_ready>>
    /\ UNCHANGED <<notGate, rlVars>>

\* time passes while the service pipeline works
SvcTick ==
    /\ pipeline = "service"
    /\ ClockTick
    /\ UNCHANGED <<notGate, pwVars>>

\* WordProcessor._generate_text -> llm_generator.process_german_words([word]):
\* no request without a client, else one request, answered or failing
CliGenerateText ==
    /\ pipeline = "cli"
    /\ pw_pc = "next"
    /\ words_done < MaxWords
    /\ requests' = IF client_ready THEN requests + 1 ELSE requests
    /\ WordEnds
    /\ UNCHANGED <<pipeline, target_english, client_ready>>
    /\ UNCHANGED <<notGate, rlVars>>

\* the service pipeline owns a RateLimiter; the CLI pipeline has none
InitGate ==
    /\ WPOff
    /\ MoreOff
    /\ pw_pc = "next"
    /\ words_done = 0
    /\ requests = 0
    /\ target_english \in BOOLEAN
    /\ \/ pipeline = "service" /\ client_ready = TRUE /\ RLFresh
       \/ pipeline = "cli" /\ client_ready \in BOOLEAN /\ RLOff

NextGate ==
    \/ SvcConsume
    \/ SvcConsumeWake
    \/ SvcGenerateContent
    \/ SvcTranslateConsume
    \/ SvcTranslate
    \/ SvcTick
    \/ CliGenerateText

SpecGate == InitGate /\ [][NextGate]_vars

-----------------------------------------------------------------------------
(* WordProcessor: text generation and its error handling *)

MAX_GROQ_RETRIES == 50
DEFAULT_GROQ_RETRY_DELAY_SECONDS == 60

\* the delay _handle_groq_error returns for a RateLimitError
FIXED_RATE_LIMIT_DELAY == 31

Max2(a, b) == IF a >= b THEN a ELSE b

TRY_AGAIN_IN == "try again in "

DigitChars == <<"0", "1", "2", "3", "4", "5", "6", "7", "8", "9">>

Digits == Range(DigitChars)

\* int() of one digit character
DigitVal(c) == (CHOOSE i \in DOMAIN DigitChars : DigitChars[i] = c) - 1

\* int() of a run of digit characters
RECURSIVE NumVal(_)
NumVal(ds) ==
    IF ds = <<>> THEN 0
    ELSE NumVal(SubSeq(ds, 1, Len(ds) - 1)) * 10 + DigitVal(ds[Len(ds)])

TokAt(text, i) == IF i \in DOMAIN text THEN text[i] ELSE ""

\* length of the run of digits that starts at position i
DigitRun(text, i) ==
    MaxOf({k \in 0..Len(text) : \A j \in i..(i + k - 1) : TokAt(text, j) \in Digits})

\* re.search(r'try again in (?:(\d+)m)?(\d{1,3}(?:\.\d+)?)s'), tried at
\* position i, on details whose delays are whole seconds: the minutes group
\* takes a whole run of digits followed by "m"; the seconds group a whole run
\* of one to three digits followed by "s"
MatchAt(text, i) ==
    LET k1 == DigitRun(text, i + 1)
        k2 == DigitRun(text, i + k1 + 2)
        none == [matched |-> FALSE, minutes |-> 0, seconds |-> 0]
    IN  IF TokAt(text, i) # TRY_AGAIN_IN THEN none
        ELSE IF /\ k1 >= 1
                /\ TokAt(text, i + k1 + 1) = "m"
                /\ k2 \in 1..3
                /\ TokAt(text, i + k1 + 2 + k2) = "s"
            THEN [matched |-> TRUE,
                  minutes |-> NumVal(SubSeq(text, i + 1, i + k1)),
                  seconds |-> NumVal(SubSeq(text, i + k1 + 2, i + k1 + 1 + k2))]
        ELSE IF k1 \in 1..3 /\ TokAt(text, i + k1 + 1) = "s"
            THEN [matched |-> TRUE, minutes |-> 0,
                  seconds |-> NumVal(SubSeq(text, i + 1, i + k1))]
        ELSE none

\* WordProcessor._parse_retry_after, in seconds
ParseRetryAfter(error_message) ==
    LET hits == {i \in DOMAIN error_message : MatchAt(error_message, i).matched}
    IN  IF hits # {}
        THEN LET m == MatchAt(error_message, MinOf(hits))
             IN  Max2(1, m.minutes * 60 + m.seconds + 1)
        ELSE DEFAULT_GROQ_RETRY_DELAY_SECONDS

\* what an instance of WordProcessor has besides its methods: the attributes
\* __init__ sets; the class body defines no constant
WordProcessorAttributes == {"args", "can_generate_images"}

Raises(exc) == [raised |-> exc, should_retry |-> FALSE, delay |-> 0, retries |-> 0]

Returns(should_retry, delay, retries) ==
    [raised |-> "no", should_retry |-> should_retry, delay |-> delay,
     retries |-> retries]

\* WordProcessor._handle_groq_error(error, word, retries)
HandleGroqError(error_name, retries) ==
    IF "MAX_GROQ_RETRIES" \notin WordProcessorAttributes
        THEN Raises("AttributeError")
    ELSE IF retries >= MAX_GROQ_RETRIES
        THEN Returns(FALSE, 0, retries)
    ELSE IF error_name = "RateLimitError"
        THEN Returns(TRUE, FIXED_RATE_LIMIT_DELAY, retries + 1)
    ELSE \* min(2 ** retries, self.MAX_BACKOFF_DELAY): no such attribute either
        Raises("AttributeError")

\* what the chat-completion request of llm_generator can do
LLMOutcomes == {"ok", "incomplete", "RateLimitError", "APIError"}

ErrorNames == {"RateLimitError", "APIError"}

\* llm_generator.process_german_words([word]): no client, no data; an
\* exception of the request is caught per word and an empty record is appended
ProcessGermanWords(client, llm) ==
    IF ~client THEN [raised |-> FALSE, error |-> "none", list |-> <<>>]
    ELSE [raised |-> FALSE, error |-> "none",
          list |-> <<[word_translation |-> (llm = "ok")]>>]

\* WordProcessor._generate_text: the while True loop, from the given count
RECURSIVE GenerateTextLoop(_, _, _, _, _)
GenerateTextLoop(client, llm, retries, attempts, slept) ==
    LET r == ProcessGermanWords(client, llm)
        end(raised, item) ==
            [raised |-> raised, item |-> item, attempts |-> attempts + 1,
             slept |-> slept]
    IN  IF ~r.raised
        THEN end("no", r.list # <<>> /\ r.list[1].word_translation)
        ELSE LET h == HandleGroqError(r.error, retries)
             IN  IF h.raised # "no" THEN end(h.raised, FALSE)
                 ELSE IF h.should_retry
                     THEN GenerateTextLoop(client, llm, h.retries, attempts + 1,
                                           slept + h.delay)
                 ELSE end("no", FALSE)

GenerateText(client, llm) == GenerateTextLoop(client, llm, 0, 0, 0)

\* error details, as the tests of _parse_retry_after and _handle_groq_error
\* write them, and variations of their delay
Detail_30s == <<"Rate limit exceeded. Please ", TRY_AGAIN_IN, "3", "0", "s", ".">>
Detail_1m30s ==
    <<"Rate limit exceeded. Please ", TRY_AGAIN_IN, "1", "m", "3", "0", "s", ".">>
Detail_2m5s == <<TRY_AGAIN_IN, "2", "m", "5", "s">>
Detail_0s == <<TRY_AGAIN_IN, "0", "s">>
Detail_1000s == <<TRY_AGAIN_IN, "1", "0", "0", "0", "s">>
Detail_none == <<"Invalid error message format">>

DetailChoices ==
    {Detail_30s, Detail_1m30s, Detail_2m5s, Detail_0s, Detail_1000s, Detail_none}

\* the retry counts the handler is called with: the first errors and the
\* counts around the limit
RetryChoices == {0, 1, MAX_GROQ_RETRIES - 1, MAX_GROQ_RETRIES}

NoResult ==
    [raised |-> "no", should_retry |-> FALSE, delay |-> 0, retries |-> 0,
     item |-> FALSE, attempts |-> 0, slept |-> 0]

notRT == <<wpVars, rlVars, pwVars, appVars, guiVars, lateVars>>

\* word_processor._parse_retry_after(detail)
CallParseRetryAfter ==
    /\ rt_pc = "new"
    /\ rt_pc' = "parsed"
    /\ rt_result' = [NoResult EXCEPT !.delay = ParseRetryAfter(err_detail)]
    /\ UNCHANGED <<llm_outcome, err_detail, err_retries, rt_client>>
    /\ UNCHANGED notRT

\* word_processor._handle_groq_error(error, word, retries)
CallHandleGroqError ==
    /\ rt_pc = "new"
    /\ llm_outcome \in ErrorNames
    /\ rt_pc' = "handled"
    /\ LET h == HandleGroqError(llm_outcome, err_retries)
       IN  rt_result' = [NoResult EXCEPT !.raised = h.raised,
                                         !.should_retry = h.should_retry,
                                         !.delay = h.delay,
                                         !.retries = h.retries]
    /\ UNCHANGED <<llm_outcome, err_detail, err_retries, rt_client>>
    /\ UNCHANGED notRT

\* word_processor._generate_text(word)
CallGenerateText ==
    /\ rt_pc = "new"
    /\ rt_pc' = "generated"
    /\ LET g == GenerateText(rt_client, llm_outcome)
       IN  rt_result' = [NoResult EXCEPT !.raised = g.raised,
                                         !.item = g.item,
                                         !.attempts = g.attempts,
                                         !.slept = g.slept]
    /\ UNCHANGED <<llm_outcome, err_detail, err_retries, rt_client>>
    /\ UNCHANGED notRT

InitRetry ==
    /\ rt_pc = "new"
    /\ llm_outcome \in LLMOutcomes
    /\ err_detail \in DetailChoices
    /\ err_retries \in RetryChoices
    /\ rt_client \in BOOLEAN
    /\ rt_result = NoResult
    /\ WPOff /\ RLOff /\ PWOff /\ AppOff /\ GuiOff /\ LateOff

NextRetry == CallParseRetryAfter \/ CallHandleGroqError \/ CallGenerateText

SpecRetry == InitRetry /\ [][NextRetry]_vars

-----------------------------------------------------------------------------
(* Configuration and prerequisites *)

\* Configuration.generate_images
ConfigGenerateImages(account, token) == account /\ token

\* Configuration.validate: the errors it lists
Validate(key, account, token) ==
    (IF ~key THEN {"Groq API key is required"} ELSE {})
    \cup (IF ConfigGenerateImages(account, token) /\ (~account \/ ~token)
          THEN {"Cloudflare credentials are required for image generation"}
          ELSE {})

\* ConfigManager.get_api_credentials: the keys of the dictionary
GetApiCredentials(account, token) ==
    {"groq_api_key"}
    \cup (IF account /\ token
          THEN {"cloudflare_account_id", "cloudflare_api_token"} ELSE {})

\* ConfigManager.get_processing_options: ProcessingOptions.generate_images
OptionsGenerateImages(requested, account, token) ==
    requested /\ ConfigGenerateImages(account, token)

\* AnkiCardProcessor.__init__: an image service is created
ImageServiceCreated(requested, account, token) ==
    /\ OptionsGenerateImages(requested, account, token)
    /\ "cloudflare_account_id" \in GetApiCredentials(account, token)

\* config.check_prerequisites(args): (prereqs_ok, can_generate_images)
CheckPrerequisites(key, account, token, noimage) ==
    [ok |-> key, can_generate_images |-> key /\ account /\ token /\ ~noimage]

-----------------------------------------------------------------------------
(* WordProcessor.process_word *)

\* characters str.isalnum() accepts, among those of the words modelled
AlnumChars == {"A", "B", "C", "D", "Z", "x", "ä"}

\* the letters of 'äöüÄÖÜß'
GermanLetters == {"ä", "ö", "ü", "Ä", "Ö", "Ü", "ß"}

\* a sanitizer that fills with blanks instead of underscores
SanitizeFilename_BlankFiller(text) ==
    LET t == Strip(text)
    IN  [i \in DOMAIN t |->
            IF t[i] \in AlnumChars \/ t[i] \in GermanLetters THEN t[i] ELSE " "]

\* WordProcessor._sanitize_filename
SanitizeFilename(text) ==
    LET t == Strip(text)
    IN  [i \in DOMAIN t |->
            IF t[i] \in AlnumChars \/ t[i] \in GermanLetters THEN t[i] ELSE "_"]

\* an image tag is produced although images were ruled out
GenerateImage_IgnoresFlag(word, image, can_images) ==
    IF image = "fail" THEN <<>>
    ELSE <<IMG_OPEN>> \o SanitizeFilename(word) \o <<IMG_CLOSE, "<br>">>

\* WordProcessor._generate_image: the tag, empty when images are off or the
\* request, the decoding or the saving fails
GenerateImage(word, image, can_images) ==
    IF ~can_images \/ image # "ok" THEN <<>>
    ELSE <<IMG_OPEN>> \o SanitizeFilename(word) \o <<IMG_CLOSE, "<br>">>

\* a sound tag that carries the word as it is
GenerateAudio_RawName(word, audio, noaudio) ==
    IF noaudio \/ audio # "ok" THEN <<>>
    ELSE <<SOUND_OPEN>> \o word \o <<SOUND_CLOSE>>

\* WordProcessor._generate_audio: the tag, empty when audio is off or fails
GenerateAudio(word, audio, noaudio) ==
    IF noaudio \/ audio # "ok" THEN <<>>
    ELSE <<SOUND_OPEN>> \o SanitizeFilename(word) \o <<SOUND_CLOSE>>

NoLine == [ok |-> FALSE, line |-> <<>>]

\* a media failure fails the word
ProcessWord_MediaFailureFails(word, item, fmt, image, audio, can_images, noaudio) ==
    IF ~item \/ fmt # "ok" \/ image = "fail" \/ audio = "fail" THEN NoLine
    ELSE [ok |-> TRUE,
          line |-> GenerateImage(word, image, can_images) \o <<"x", ";">>
                   \o GenerateAudio(word, audio, noaudio) \o <<"x">>]

\* WordProcessor.process_word, given what _generate_text returned: None, or
\* f"{img_tag}{english_part};{sound_tag}{german_part}"
ProcessWord(word, item, fmt, image, audio, can_images, noaudio) ==
    IF ~item THEN NoLine
    ELSE IF fmt # "ok" THEN NoLine
    ELSE [ok |-> TRUE,
          line |-> GenerateImage(word, image, can_images) \o <<"x", ";">>
                   \o GenerateAudio(word, audio, noaudio) \o <<"x">>]

\* what the image request and the audio request of a word can do
ImageOutcomes(can_images) == IF can_images THEN {"ok", "fail"} ELSE {"off"}
AudioOutcomes(noaudio) == IF noaudio THEN {"off"} ELSE {"ok", "fail"}

-----------------------------------------------------------------------------
(* Naming the media of one word *)

notNames == <<wpVars, rlVars, pwVars, appVars, rtVars, guiVars, wkVars, prVars>>

\* characters of the strings handed to _sanitize_filename: a letter, a German
\* letter, a blank, a punctuation mark, an underscore
NameChars == {"A", "ä", " ", "-", "_"}

\* any string is handed to the word processor
InitNames ==
    /\ nm_pc = "new"
    /\ nm_word \in SeqsUpTo(NameChars, MaxNameLen)
    /\ nm_once = <<>>
    /\ nm_twice = <<>>
    /\ nm_line = <<>>
    /\ nm_next = <<>>
    /\ WPOff /\ RLOff /\ PWOff /\ AppOff /\ RTOff /\ GuiOff /\ WorkerOff
    /\ ProgressOff

\* safe_filename_base = self._sanitize_filename(word)
SanitizeWord ==
    /\ nm_pc = "new"
    /\ nm_once' = SanitizeFilename(nm_word)
    /\ nm_pc' = "once"
    /\ UNCHANGED <<nm_word, nm_twice, nm_line, nm_next>>
    /\ UNCHANGED notNames

\* the audio service sanitizes the filename it is handed once more
SanitizeAgain ==
    /\ nm_pc = "once"
    /\ nm_twice' = SanitizeFilename(nm_once)
    /\ nm_pc' = "twice"
    /\ UNCHANGED <<nm_word, nm_once, nm_line, nm_next>>
    /\ UNCHANGED notNames

\* the words a run reads from an input file whose only line is the string
WordsOfLine(text) == ReadInputWords(TRUE, <<text>>)

\* a run over the one-line input file: process_word builds the record of the
\* word, with the media that succeed
BuildRecord ==
    /\ nm_pc = "twice"
    /\ WordsOfLine(nm_word).outcome = "ok"
    /\ \E image \in ImageOutcomes(TRUE) : \E audio \in AudioOutcomes(FALSE) :
          nm_line' = ProcessWord(WordsOfLine(nm_word).words[1], TRUE, "ok",
                                 image, audio, TRUE, FALSE).line
    /\ nm_pc' = "record"
    /\ UNCHANGED <<nm_word, nm_once, nm_twice, nm_next>>
    /\ UNCHANGED notNames

\* the next run over the same input file and the output holding the record:
\* WordProvider._load_and_filter_words
ResumeNextRun ==
    /\ nm_pc = "record"
    /\ \E shuffled \in Shuffles(WordsOfLine(nm_word).words) :
          nm_next' = DetermineWordsToProcess(shuffled, TRUE, <<nm_line>>).words
    /\ nm_pc' = "resumed"
    /\ UNCHANGED <<nm_word, nm_once, nm_twice, nm_line>>
    /\ UNCHANGED notNames

NextNames == SanitizeWord \/ SanitizeAgain \/ BuildRecord \/ ResumeNextRun

SpecNames == InitNames /\ [][NextNames]_vars

-----------------------------------------------------------------------------
(* AnkiGeneratorApp.run: setup, then the processing loop *)

notApp == <<rlVars, pwVars, rtVars, guiVars, lateVars>>

\* input files of a run: the first words of ResumeWords, or no file
AppInputChoices == {SubSeq(ResumeWords, 1, n) : n \in 0..MaxLoopWords}

\* output files a run starts over: none, an empty one, a record of an earlier
\* run, a line without markers, a line that cannot be decoded
AppOutputChoices ==
    {<<>>, <<SoundLine(<<"A">>)>>, <<(<<"x", ";", "x">>)>>, <<(<<"x", UNDECODABLE>>)>>}

\* AnkiGeneratorApp.__init__, in an environment with any credentials and files
InitApp ==
    /\ groq_key \in BOOLEAN
    /\ cf_account \in BOOLEAN
    /\ cf_token \in BOOLEAN
    /\ no_image \in BOOLEAN
    /\ no_audio \in BOOLEAN
    /\ app_pc = "new"
    /\ can_generate_images = FALSE
    /\ words_iterator = <<>>
    /\ handle_open = FALSE
    /\ successful_count = 0
    /\ failed_words = <<>>
    /\ handled = <<>>
    /\ written = <<>>
    /\ image_calls = 0
    /\ app_exit = "none"
    /\ open_count = 0
    /\ stray_write = "none"
    /\ input_exists \in BOOLEAN
    /\ input_file \in AppInputChoices
    /\ (~input_exists => input_file = <<>>)
    /\ output_exists \in BOOLEAN
    /\ output_file \in AppOutputChoices
    /\ (~output_exists => output_file = <<>>)
    /\ WPFresh
    /\ RLOff /\ PWOff /\ RTOff /\ GuiOff /\ LateOff

\* AnkiGeneratorApp.setup in file-input mode: the prerequisite check, then the
\* construction of the WordProvider and get_file_mode()
AppSetup ==
    /\ app_pc = "new"
    /\ LET pre == CheckPrerequisites(groq_key, cf_account, cf_token, no_image)
           rd == ReadInputWords(input_exists, input_file)
       IN  /\ can_generate_images' = pre.can_generate_images
           /\ IF ~pre.ok
              THEN /\ app_pc' = "SystemExit"
                   /\ app_exit' = "prerequisites"
                   /\ UNCHANGED <<wp_pc, original_words, words_to_process,
                                  file_mode, processed_words_set, app_file_mode>>
              ELSE IF rd.outcome # "ok"
              THEN /\ app_pc' = rd.outcome
                   /\ app_exit' = "input"
                   /\ wp_pc' = rd.outcome
                   /\ UNCHANGED <<original_words, words_to_process, file_mode,
                                  processed_words_set, app_file_mode>>
              ELSE /\ \E shuffled \in Shuffles(rd.words) :
                         LET r == DetermineWordsToProcess(shuffled, output_exists,
                                                          output_file)
                         IN  /\ words_to_process' = r.words
                             /\ file_mode' = r.mode
                             /\ processed_words_set' = r.set
                   /\ original_words' = rd.words
                   /\ app_file_mode' = GetFileMode(output_exists, output_file)
                   /\ wp_pc' = "setup"
                   /\ app_pc' = "ready"
                   /\ UNCHANGED app_exit
    /\ UNCHANGED <<open_count, stray_write>>
    /\ UNCHANGED <<credVars, words_iterator, handle_open, successful_count,
                   failed_words, handled, written, image_calls>>
    /\ UNCHANGED <<input_exists, input_file, output_exists, output_file>>
    /\ UNCHANGED notApp

\* a loop that goes on with an empty list
NothingToProcess_Never(total_words) == FALSE

\* 'if total_words == 0'
NothingToProcess(total_words) == total_words = 0

\* _run_processing_loop up to the first word: nothing to do, or
\* _managed_output_file opens the output (an IOError there exits the process)
StartLoop ==
    /\ app_pc = "ready"
    /\ IF NothingToProcess(Len(words_to_process))
       THEN /\ app_pc' = "done"
            /\ app_exit' = "no_words"
            /\ UNCHANGED <<words_iterator, handle_open, output_exists, output_file,
                           open_count>>
       ELSE \E opened \in BOOLEAN :
               IF opened
               THEN /\ handle_open' = TRUE
                    /\ open_count' = open_count + 1
                    /\ output_exists' = TRUE
                    /\ output_file' = IF app_file_mode = "w" THEN <<>> ELSE output_file
                    /\ words_iterator' = words_to_process
                    /\ app_pc' = "loop"
                    /\ UNCHANGED app_exit
               ELSE /\ app_pc' = "SystemExit"
                    /\ app_exit' = "open"
                    /\ UNCHANGED <<words_iterator, handle_open, output_exists,
                                   output_file, open_count>>
    /\ UNCHANGED stray_write
    /\ UNCHANGED <<credVars, can_generate_images, successful_count, failed_words,
                   handled, written, image_calls>>
    /\ UNCHANGED <<input_exists, input_file, wp_pc, original_words,
                   words_to_process, file_mode, processed_words_set, app_file_mode>>
    /\ UNCHANGED notApp

\* a write that puts the line in front of what the file holds
WriteOutputLine_AtStart(file, line) == <<line>> \o file

\* _write_output_line: self._output_file_handle.write(line + '\n')
WriteOutputLine(file, line) == Append(file, line)

\* a write that does not look whether a file is open
WriteOutputLineChecked_NoCheck(open, file, line) ==
    [raised |-> "no", file |-> WriteOutputLine(file, line)]

\* _write_output_line, with its check of the handle
WriteOutputLineChecked(open, file, line) ==
    IF ~open THEN [raised |-> "IOError", file |-> file]
    ELSE [raised |-> "no", file |-> WriteOutputLine(file, line)]

\* what the loop records of a dequeued word
Handled(word, llm, g, fmt, image, audio, raised, r, stored) ==
    [word |-> word, llm |-> llm, attempts |-> g.attempts, slept |-> g.slept,
     fmt |-> fmt, image |-> image, audio |-> audio, raised |-> raised,
     ok |-> r.ok, line |-> r.line, stored |-> stored]

\* the steps of process_word a word reaches, given how the earlier ones went
Reached(item, fmt, image, audio) ==
    [fmt |-> IF item THEN fmt ELSE "skipped",
     image |-> IF item /\ fmt = "ok" THEN image ELSE "skipped",
     audio |-> IF item /\ fmt = "ok" THEN audio ELSE "skipped"]

\* one iteration of the loop: the next word is dequeued, process_word returns
\* a line or None, the line is written and counted or the word is listed as
\* failed
ProcessNext ==
    /\ app_pc = "loop"
    /\ words_iterator # <<>>
    /\ \E llm \in LLMOutcomes : \E fmt \in {"ok", "none"} :
       \E image \in ImageOutcomes(can_generate_images) :
       \E audio \in AudioOutcomes(no_audio) :
          LET word == Head(words_iterator)
              g == GenerateText(groq_key, llm)
              at == Reached(g.item, fmt, image, audio)
              r == ProcessWord(word, g.item, fmt, image, audio,
                               can_generate_images, no_audio)
          IN  /\ g.raised = "no"
              /\ handled' = Append(handled,
                                   Handled(word, llm, g, at.fmt, at.image, at.audio,
                                           "no", r, r.ok))
              /\ image_calls' = IF at.image \in {"ok", "fail"}
                                THEN image_calls + 1 ELSE image_calls
              /\ IF r.ok
                 THEN /\ output_file' =
                         WriteOutputLineChecked(handle_open, output_file, r.line).file
                      /\ written' = WriteOutputLine(written, r.line)
                      /\ successful_count' = successful_count + 1
                      /\ UNCHANGED failed_words
                 ELSE /\ failed_words' = Append(failed_words, word)
                      /\ UNCHANGED <<output_file, written, successful_count>>
    /\ words_iterator' = Tail(words_iterator)
    /\ UNCHANGED <<open_count, stray_write>>
    /\ UNCHANGED <<credVars, app_pc, can_generate_images, handle_open, app_exit>>
    /\ UNCHANGED <<input_exists, input_file, output_exists, wp_pc, original_words,
                   words_to_process, file_mode, processed_words_set, app_file_mode>>
    /\ UNCHANGED notApp

\* the exceptions process_word can let through: any Exception (a print that
\* cannot encode the word, ...) or, among them, an IOError (a closed stdout)
ExceptionKinds == {"Exception", "IOError"}

\* how an exception raised under 'with self._managed_output_file()' ends the
\* loop: the handle is closed and cleared; an IOError becomes sys.exit(1), any
\* other Exception is caught and printed by _run_processing_loop
LoopEndsOn(kind) ==
    /\ handle_open' = FALSE
    /\ app_pc' = IF kind = "IOError" THEN "SystemExit" ELSE "done"
    /\ app_exit' = IF kind = "IOError" THEN "escaped" ELSE "caught"

\* one iteration in which process_word raises
ProcessWordRaises ==
    /\ app_pc = "loop"
    /\ words_iterator # <<>>
    /\ \E kind \in ExceptionKinds :
          /\ handled' = Append(handled,
                               Handled(Head(words_iterator), "none",
                                       [attempts |-> 0, slept |-> 0], "skipped",
                                       "skipped", "skipped", kind, NoLine, FALSE))
          /\ LoopEndsOn(kind)
    /\ words_iterator' = Tail(words_iterator)
    /\ UNCHANGED <<open_count, stray_write>>
    /\ UNCHANGED <<credVars, can_generate_images, successful_count, failed_words,
                   written, image_calls>>
    /\ UNCHANGED wpVars
    /\ UNCHANGED notApp

\* one iteration in which process_word returns a line and the write raises
\* IOError (a full disk, ...)
WriteRaises ==
    /\ app_pc = "loop"
    /\ words_iterator # <<>>
    /\ \E image \in ImageOutcomes(can_generate_images) :
       \E audio \in AudioOutcomes(no_audio) :
          LET word == Head(words_iterator)
              g == GenerateText(groq_key, "ok")
              r == ProcessWord(word, g.item, "ok", image, audio,
                               can_generate_images, no_audio)
          IN  /\ r.ok
              /\ handled' = Append(handled,
                                   Handled(word, "ok", g, "ok", image, audio, "no",
                                           r, FALSE))
              /\ image_calls' = IF image \in {"ok", "fail"}
                                THEN image_calls + 1 ELSE image_calls
    /\ LoopEndsOn("IOError")
    /\ words_iterator' = Tail(words_iterator)
    /\ UNCHANGED <<open_count, stray_write>>
    /\ UNCHANGED <<credVars, can_generate_images, successful_count, failed_words,
                   written>>
    /\ UNCHANGED wpVars
    /\ UNCHANGED notApp

\* the iterator is exhausted: the with block closes the file and the loop returns
EndLoop ==
    /\ app_pc = "loop"
    /\ words_iterator = <<>>
    /\ handle_open' = FALSE
    /\ app_pc' = "done"
    /\ app_exit' = "exhausted"
    /\ UNCHANGED <<open_count, stray_write>>
    /\ UNCHANGED <<credVars, can_generate_images, words_iterator, successful_count,
                   failed_words, handled, written, image_calls>>
    /\ UNCHANGED wpVars
    /\ UNCHANGED notApp

\* _write_output_line called while no with block is active
WriteWithoutFile ==
    /\ app_pc \in {"ready", "done"}
    /\ stray_write = "none"
    /\ LET wr == WriteOutputLineChecked(handle_open, output_file, <<"x", ";", "x">>)
       IN  /\ output_file' = wr.file
           /\ stray_write' = IF wr.file # output_file THEN "written" ELSE wr.raised
    /\ UNCHANGED <<credVars, app_pc, can_generate_images, words_iterator,
                   handle_open, successful_count, failed_words, handled, written,
                   image_calls, app_exit, open_count>>
    /\ UNCHANGED <<input_exists, input_file, output_exists, wp_pc, original_words,
                   words_to_process, file_mode, processed_words_set, app_file_mode>>
    /\ UNCHANGED notApp

NextApp ==
    \/ WriteWithoutFile
    \/ AppSetup
    \/ StartLoop
    \/ ProcessNext
    \/ ProcessWordRaises
    \/ WriteRaises
    \/ EndLoop

SpecApp == InitApp /\ [][NextApp]_vars

-----------------------------------------------------------------------------
(* main.process_words_for_gui *)

notGui == <<wpVars, rlVars, pwVars, appVars, rtVars, lateVars>>

\* what the body of the try block does with a word: the card is added to the
\* deck, with an image when one was asked for and found, or an exception of
\* the generator, the processor, the provider or the builder is caught
GuiWordOutcomes(images) ==
    IF images THEN {"card", "card_with_image", "error"} ELSE {"card", "error"}

\* builder.add_card(processed_result, image_path)
AddCard(cards, word, outcome) ==
    IF outcome = "error" THEN cards
    ELSE Append(cards, [word |-> word, image |-> (outcome = "card_with_image")])

\* a stop check that never stops
ShouldStop_Never(given, answer) == FALSE

\* 'should_stop_callback and should_stop_callback()'
ShouldStop(given, answer) == given /\ answer

\* process_words_for_gui was called: the words are read and the deck is empty
InitGui ==
    /\ gui_pc = "loop"
    /\ gui_words \in {SubSeq(ResumeWords, 1, n) : n \in 0..MaxGuiWords}
    /\ gui_i = 0
    /\ has_stop_callback \in BOOLEAN
    /\ with_images \in BOOLEAN
    /\ stop_checks = 0
    /\ stop_seen = FALSE
    /\ gui_done = <<>>
    /\ deck = <<>>
    /\ deck_saved = FALSE
    /\ gui_result = "none"
    /\ WPOff /\ RLOff /\ PWOff /\ AppOff /\ RTOff /\ LateOff

\* one iteration of 'for i, word in enumerate(words)': the stop check, then
\* either 'return None' or the word's try block
GuiNextWord ==
    /\ gui_pc = "loop"
    /\ gui_i < Len(gui_words)
    /\ \E answer \in BOOLEAN : \E outcome \in GuiWordOutcomes(with_images) :
          LET word == gui_words[gui_i + 1]
          IN  /\ stop_checks' = IF has_stop_callback THEN stop_checks + 1
                                ELSE stop_checks
              /\ stop_seen' = (has_stop_callback /\ answer)
              /\ IF ShouldStop(has_stop_callback, answer)
                 THEN /\ gui_pc' = "returned"
                      /\ gui_result' = "None"
                      /\ UNCHANGED <<gui_i, gui_done, deck>>
                 ELSE /\ gui_done' = Append(gui_done,
                                            [word |-> word, outcome |-> outcome])
                      /\ deck' = AddCard(deck, word, outcome)
                      /\ gui_i' = gui_i + 1
                      /\ UNCHANGED <<gui_pc, gui_result>>
    /\ UNCHANGED <<gui_words, has_stop_callback, with_images, deck_saved>>
    /\ UNCHANGED notGui

\* after the last word: builder.save_to_file(output_path); return output_path
GuiSaveDeck ==
    /\ gui_pc = "loop"
    /\ gui_i = Len(gui_words)
    /\ deck_saved' = TRUE
    /\ gui_pc' = "returned"
    /\ gui_result' = "output_path"
    /\ UNCHANGED <<gui_words, gui_i, has_stop_callback, with_images, stop_checks,
                   stop_seen, gui_done, deck>>
    /\ UNCHANGED notGui

NextGui == GuiNextWord \/ GuiSaveDeck

SpecGui == InitGui /\ [][NextGui]_vars

-----------------------------------------------------------------------------
(* The GUI window (src/src/gui.py): start_generation, WorkerThread.run,
   process_finished *)

notWorker == <<wpVars, rlVars, pwVars, appVars, rtVars, guiVars, nmVars, prVars>>

\* the text of the button built in the main window
GENERATE_BUTTON_TEXT == "Generate Cards"

\* a loop over the buttons that finds none to disable
IsGenerateButton_Never(text) == FALSE

\* 'if btn.text() == "Generate Cards"'
IsGenerateButton(text) == text = "Generate Cards"

\* what the input box can hold, as the lines input_text.split('\n') yields
InputTextChoices ==
    {<<(<<>>)>>, <<(<<" ">>)>>, <<(<<"A">>)>>, <<(<<" ", "B", " ">>), (<<>>), (<<"A">>)>>}

\* 'input_text.strip()' is empty
TextIsBlank(text) == \A i \in DOMAIN text : Strip(text[i]) = <<>>

\* [word.strip() for word in self.input_text.split('\n') if word.strip()]
WorkerWords(text) == StrippedNonBlank(text)

\* the window is shown: the button is enabled and no worker exists
InitWorker ==
    /\ btn_enabled = TRUE
    /\ wk_started = 0
    /\ wk_pc = [i \in 1..MaxRuns |-> "none"]
    /\ wk_emits = [i \in 1..MaxRuns |-> 0]
    /\ wk_path = [i \in 1..MaxRuns |-> "none"]
    /\ WPOff /\ RLOff /\ PWOff /\ AppOff /\ RTOff /\ GuiOff /\ NamesOff
    /\ ProgressOff

\* a click on the enabled button: start_generation; run() parses the words
\* and either ends at once (no words) or goes on to build the subprocess
StartGeneration ==
    /\ btn_enabled
    /\ wk_started < MaxRuns
    /\ \E text \in InputTextChoices : \E output_chosen \in BOOLEAN :
          IF TextIsBlank(text) \/ ~output_chosen
          THEN UNCHANGED wkVars
          ELSE LET i == wk_started + 1
               IN  /\ wk_started' = i
                   /\ wk_pc' = [wk_pc EXCEPT ![i] = "started"]
                   /\ wk_path' = [wk_path EXCEPT ![i] =
                                     IF Len(WorkerWords(text)) = 0
                                     THEN "no_words" ELSE "words"]
                   /\ btn_enabled' = IF IsGenerateButton(GENERATE_BUTTON_TEXT)
                                     THEN FALSE ELSE btn_enabled
                   /\ UNCHANGED wk_emits
    /\ UNCHANGED notWorker

\* self.finished_signal.emit(...)
Emit(i) == wk_emits' = [wk_emits EXCEPT ![i] = wk_emits[i] + 1]

\* run() up to the start of the subprocess: no words (finished(False)), an
\* exception while the temporary files are written (finished(False)), or the
\* subprocess is started
WorkerPrepares ==
    /\ \E i \in 1..MaxRuns :
          /\ wk_pc[i] = "started"
          /\ IF wk_path[i] = "no_words"
             THEN /\ Emit(i)
                  /\ wk_pc' = [wk_pc EXCEPT ![i] = "emitted"]
                  /\ UNCHANGED wk_path
             ELSE \E raised \in BOOLEAN :
                     IF raised
                     THEN /\ Emit(i)
                          /\ wk_pc' = [wk_pc EXCEPT ![i] = "emitted"]
                          /\ wk_path' = [wk_path EXCEPT ![i] = "setup_exception"]
                     ELSE /\ wk_pc' = [wk_pc EXCEPT ![i] = "subprocess"]
                          /\ UNCHANGED <<wk_emits, wk_path>>
    /\ UNCHANGED <<btn_enabled, wk_started>>
    /\ UNCHANGED notWorker

\* the subprocess exits: return code 0 (finished(True)), another return code
\* (finished(False)), or an exception on the way (finished(False))
SubprocessExits ==
    /\ \E i \in 1..MaxRuns : \E how \in {"success", "failure", "exception"} :
          /\ wk_pc[i] = "subprocess"
          /\ Emit(i)
          /\ wk_pc' = [wk_pc EXCEPT ![i] = "emitted"]
          /\ wk_path' = [wk_path EXCEPT ![i] = how]
    /\ UNCHANGED <<btn_enabled, wk_started>>
    /\ UNCHANGED notWorker

\* the GUI thread handles a queued finished signal: process_finished
ProcessFinished ==
    /\ \E i \in 1..MaxRuns :
          /\ wk_pc[i] = "emitted"
          /\ wk_pc' = [wk_pc EXCEPT ![i] = "handled"]
          /\ btn_enabled' = IF IsGenerateButton(GENERATE_BUTTON_TEXT)
                            THEN TRUE ELSE btn_enabled
    /\ UNCHANGED <<wk_started, wk_emits, wk_path>>
    /\ UNCHANGED notWorker

NextWorker == StartGeneration \/ WorkerPrepares \/ SubprocessExits \/ ProcessFinished

SpecWorker == InitWorker /\ [][NextWorker]_vars

-----------------------------------------------------------------------------
(* AnkiCardProcessor.process_words and its ProgressUpdate
   (src/src/processor.py, src/src/structures.py) *)

notProgress == <<wpVars, rlVars, pwVars, appVars, rtVars, guiVars, nmVars, wkVars>>

\* a float, kept exact as a fraction
Frac(n, d) == [num |-> n, den |-> d]

FracEq(a, b) == a.num * b.den = b.num * a.den

\* ProgressUpdate(current, total, current_word, message): __post_init__ sets
\* progress_percentage = (current / total) * 100 when total > 0
NewProgressUpdate(current, total, word) ==
    [current |-> current, total |-> total, current_word |-> word,
     progress_percentage |-> IF total > 0 THEN Frac(current * 100, total)
                             ELSE Frac(0, 1)]

\* progress.current = i + 1: an attribute assignment, nothing else changes
SetCurrent(progress, value) == [progress EXCEPT !.current = value]

\* progress_callback(progress), when a callback was given
Deliver(delivered, callback, progress) ==
    IF callback THEN Append(delivered, progress) ELSE delivered

\* process_words(words, progress_callback) was called
InitProgress ==
    /\ pr_pc = "loop"
    /\ pr_words \in {SubSeq(ResumeWords, m, n) : m \in 1..2, n \in 0..MaxProgressWords}
    /\ pr_callback \in BOOLEAN
    /\ pr_i = 0
    /\ pr_progress = <<>>
    /\ pr_delivered = <<>>
    /\ pr_stats = [processed_words |-> 0, failed_words |-> 0, failed_word_list |-> <<>>]
    /\ WPOff /\ RLOff /\ PWOff /\ AppOff /\ RTOff /\ GuiOff /\ NamesOff /\ WorkerOff

\* the first half of an iteration: the update for word i is built and delivered
BeginWord ==
    /\ pr_pc = "loop"
    /\ pr_i < Len(pr_words)
    /\ LET progress == NewProgressUpdate(pr_i, Len(pr_words), pr_words[pr_i + 1])
       IN  /\ pr_progress' = progress
           /\ pr_delivered' = Deliver(pr_delivered, pr_callback, progress)
    /\ pr_pc' = "word"
    /\ UNCHANGED <<pr_words, pr_callback, pr_i, pr_stats>>
    /\ UNCHANGED notProgress

\* the second half: process_word returns its result, the stats are updated,
\* progress.current is set to i + 1 and the update is delivered again
FinishWord ==
    /\ pr_pc = "word"
    /\ \E success \in BOOLEAN :
          pr_stats' = IF success
                      THEN [pr_stats EXCEPT !.processed_words = @ + 1]
                      ELSE [pr_stats EXCEPT !.failed_words = @ + 1,
                                            !.failed_word_list =
                                                Append(@, pr_words[pr_i + 1])]
    /\ LET progress == SetCurrent(pr_progress, pr_i + 1)
       IN  /\ pr_progress' = progress
           /\ pr_delivered' = Deliver(pr_delivered, pr_callback, progress)
    /\ pr_i' = pr_i + 1
    /\ pr_pc' = "loop"
    /\ UNCHANGED <<pr_words, pr_callback>>
    /\ UNCHANGED notProgress

\* the loop is over: the results are returned
ReturnResults ==
    /\ pr_pc = "loop"
    /\ pr_i = Len(pr_words)
    /\ pr_pc' = "returned"
    /\ UNCHANGED <<pr_words, pr_callback, pr_i, pr_progress, pr_delivered, pr_stats>>
    /\ UNCHANGED notProgress

NextProgress == BeginWord \/ FinishWord \/ ReturnResults

SpecProgress == InitProgress /\ [][NextProgress]_vars

-----------------------------------------------------------------------------
(* The LLM step: properties *)

\* C10: every chat-completion request sent while processing a word is preceded
\* by its own successful consume(1): at any time, no more requests have been
\* sent than tokens were granted.
C10_EveryRequestGated == requests <= granted

\* on the service pipeline alone every request is gated
ServiceRequestsGated == pipeline = "service" => requests <= granted

-----------------------------------------------------------------------------
(* RateLimiter: properties *)

Returned == rl_pc = "idle" /\ call.done

\* C5: whenever no consume call is in progress (after construction and after
\* every return of consume), 0 <= tokens <= capacity.
C5_TokensWithinCapacity ==
    rl_pc = "idle" => (0 <= tokens /\ tokens <= CapacityUnits)

\* C6: a blocking consume returns success for every amount, also one above the
\* capacity: it returns at once when the tokens suffice and otherwise sleeps
\* once, for (n - tokens) / refill_rate, refills, subtracts n and returns true;
\* a sleeping call always returns.
C6_BlockingReturned ==
    (Returned /\ call.block) =>
        /\ call.ok
        /\ (call.slept = 1) <=> (call.n * Unit > call.after_refill)
        /\ call.slept \in {0, 1}
        /\ call.slept = 1 =>
              /\ call.wait = call.n * Unit - call.after_refill
              /\ call.ended >= call.begun + call.wait
              /\ tokens = Min2(CapacityUnits,
                               call.after_refill + (call.ended - call.begun))
                             - call.n * Unit

C6_BlockingConsumeSucceeds ==
    /\ []C6_BlockingReturned
    /\ (rl_pc = "sleeping") ~> (Returned /\ call.block /\ call.ok)

C6_Witness ==
    /\ Returned
    /\ call.block
    /\ call.ok
    /\ call.n > Capacity
    /\ call.slept = 1

\* C7: a non-blocking consume succeeds iff n <= tokens after the refill and
\* then subtracts exactly n; a failed call does not sleep (it returns at the
\* instant it began) and leaves the tokens at their post-refill value.
C7_NonBlockingConsume ==
    (Returned /\ ~call.block) =>
        /\ call.ok <=> (call.n * Unit <= call.after_refill)
        /\ call.ok => tokens = call.after_refill - call.n * Unit
        /\ ~call.ok => tokens = call.after_refill
        /\ call.slept = 0
        /\ call.ended = call.begun

C7_Witness ==
    /\ Returned
    /\ ~call.block
    /\ ~call.ok
    /\ call.after_refill > 0
    /\ tokens = call.after_refill
    /\ granted > 0

\* C8: on a fresh (full) bucket a non-blocking consume of the whole capacity
\* succeeds and leaves 0 tokens; a following non-blocking consume(1), with no
\* grant in between, fails when no time has passed and succeeds once at least
\* 1/refill_rate (TicksPerToken ticks) have passed since the drain.
C8_DrainThenRetry ==
    Returned =>
        /\ call.scenario = "drain" =>
              (call.ok /\ tokens = 0 /\ drained_at = call.begun)
        /\ call.scenario = "retry" =>
              /\ call.since = 0 => (~call.ok /\ tokens = 0)
              /\ call.since >= TicksPerToken => call.ok
              /\ call.ok => call.since >= TicksPerToken

C8_Witness ==
    /\ Returned
    /\ call.scenario = "retry"
    /\ call.since = TicksPerToken
    /\ call.ok
    /\ granted = Capacity + 1

\* C9: the tokens granted up to now never exceed capacity + refill_rate * (time
\* since construction), in units: granted * Unit <= Capacity * Unit + now.
C9_GrantedWithinRate == granted * Unit <= CapacityUnits + now

C9_Witness ==
    /\ Returned
    /\ now > 0
    /\ granted > Capacity
    /\ granted * Unit = CapacityUnits + now

-----------------------------------------------------------------------------
(* Word Provider: properties *)

WPConstructed == wp_pc \in {"constructed", "setup"}

WordA == <<"A">>
WordB == <<"B">>
WordC == <<"C">>
WordD == <<"D">>

\* the words named by an output file made of plain sound-marker lines only
SoundMarked == {w \in Range(ResumeWords) : SoundLine(w) \in Range(output_file)}

OnlySoundLines ==
    /\ output_exists
    /\ output_file # <<>>
    /\ \A i \in DOMAIN output_file :
          \E w \in Range(ResumeWords) : output_file[i] = SoundLine(w)

\* C1: the to-process list holds exactly the input words whose text is not a
\* processed identifier (an input word is dropped iff it equals an identifier,
\* kept with its multiplicity otherwise); when the output consists of sound
\* markers, the identifiers are the marked words and the mode is append: markers
\* for A and B with input {A, B, C, D} leave exactly {C, D}.
C1_ExactlyUnprocessed ==
    WPConstructed =>
        /\ \A w \in Range(original_words) \cup Range(words_to_process) :
              Count(words_to_process, w) =
                 IF w \in processed_words_set THEN 0 ELSE Count(original_words, w)
        /\ OnlySoundLines =>
              /\ processed_words_set = SoundMarked
              /\ Range(words_to_process) = Range(original_words) \ SoundMarked
              /\ file_mode = "a"

C1_Witness ==
    /\ wp_pc = "constructed"
    /\ input_file = <<WordA, WordB, WordC, WordD>>
    /\ output_file = <<SoundLine(WordA), SoundLine(WordB)>>
    /\ Range(words_to_process) = {WordC, WordD}
    /\ Len(words_to_process) = 2
    /\ file_mode = "a"

\* C2: the mode reported by get_file_mode(), which the application opens the
\* output with, equals the mode decided by the resume scan: append iff at least
\* one processed identifier was found.
C2_ReportedModeIsDecidedMode ==
    wp_pc = "setup" =>
        /\ app_file_mode = file_mode
        /\ (app_file_mode = "a") <=> (processed_words_set # {})

IsBlank(line) == \A i \in DOMAIN line : line[i] \in Whitespace

\* w is line without its surrounding whitespace
IsTrimOf(w, line) ==
    /\ w # <<>>
    /\ w[1] \notin Whitespace
    /\ w[Len(w)] \notin Whitespace
    /\ \E i \in 0..Len(line) :
          /\ i + Len(w) <= Len(line)
          /\ SubSeq(line, i + 1, i + Len(w)) = w
          /\ \A k \in 1..i : line[k] \in Whitespace
          /\ \A k \in (i + Len(w) + 1)..Len(line) : line[k] \in Whitespace

NoOutputYet == ~output_exists \/ output_file = <<>>

\* C3: with no output file or an empty one, the to-process sequence is a
\* permutation of the trimmed non-blank input lines (as many elements as there
\* are non-blank lines, each word as often as lines trim to it) and the mode,
\* decided and reported, is write.
C3_FreshRunTakesAllTrimmedLines ==
    (WPConstructed /\ NoOutputYet) =>
        /\ Len(words_to_process) =
              Cardinality({i \in DOMAIN input_file : ~IsBlank(input_file[i])})
        /\ \A w \in Range(words_to_process) :
              Count(words_to_process, w) =
                 Cardinality({i \in DOMAIN input_file : IsTrimOf(w, input_file[i])})
        /\ file_mode = "w"
        /\ (wp_pc = "setup" => app_file_mode = "w")

C3_Witness ==
    /\ wp_pc = "setup"
    /\ ~output_exists
    /\ input_file = <<(<<"A">>), (<<>>), (<<" ", "B", " ">>), (<<"A", " ", "B">>)>>
    /\ Len(words_to_process) = 3
    /\ Range(words_to_process) = {<<"A">>, <<"B">>, <<"A", " ", "B">>}

SubBag(s, t) == \A w \in Range(s) : Count(s, w) <= Count(t, w)

\* C4 as stated: the result is a permutation of a sub-list of the input and,
\* when every identifier found is an input word, its length is the input's
\* length minus the number of identifiers found.
C4_LengthMinusIdentifiers ==
    (WPConstructed /\ processed_words_set \subseteq Range(original_words)) =>
        /\ SubBag(words_to_process, original_words)
        /\ Len(words_to_process) =
              Len(original_words) - Cardinality(processed_words_set)

\* C4 (amended): the result is a permutation of a sub-list of the input and,
\* when every identifier found is an input word, its length is the input's
\* length minus the number of input entries that equal an identifier (which is
\* the number of identifiers when the input has no duplicates).
C4_LengthMinusMatchedEntries ==
    (WPConstructed /\ processed_words_set \subseteq Range(original_words)) =>
        /\ SubBag(words_to_process, original_words)
        /\ Len(words_to_process) =
              Len(original_words)
                - Cardinality({i \in DOMAIN original_words :
                                  original_words[i] \in processed_words_set})
        /\ (Cardinality(Range(original_words)) = Len(original_words) =>
              Len(words_to_process) =
                 Len(original_words) - Cardinality(processed_words_set))

C4_Witness ==
    /\ wp_pc = "constructed"
    /\ original_words = <<WordA, WordA, WordB, WordC>>
    /\ processed_words_set = {WordA, WordB}
    /\ words_to_process = <<WordC>>

WPAborted == wp_pc \in {"FileNotFoundError", "SystemExit"}

\* the input file is missing or has no non-blank line
NoInputWords == ~input_exists \/ \A i \in DOMAIN input_file : IsBlank(input_file[i])

\* C19: constructing a Word Provider over a missing input file, or over one
\* with zero non-blank lines, ends in SystemExit in both cases, and no provider
\* is returned.
C19_NoInputWordsExits ==
    (wp_pc # "new" /\ NoInputWords) => wp_pc = "SystemExit"

\* the existing output file cannot be decoded
UnreadableOutput ==
    /\ output_exists
    /\ \E i \in DOMAIN output_file : Undecodable(output_file[i])

\* C20: an existing output file that cannot be read during the resume scan
\* never aborts the construction (it ends early only for want of input words);
\* once constructed, the identifiers collected before the error are discarded,
\* every input word is scheduled, as often as the input holds it, and the
\* decided mode is write.
C20_UnreadableOutputStartsFresh ==
    UnreadableOutput =>
        /\ WPAborted => NoInputWords
        /\ WPConstructed =>
              /\ processed_words_set = {}
              /\ Len(words_to_process) = Len(original_words)
              /\ \A w \in Range(original_words) :
                    Count(words_to_process, w) = Count(original_words, w)
              /\ file_mode = "w"

C20_Witness ==
    /\ wp_pc = "constructed"
    /\ original_words = <<WordA, WordB>>
    /\ output_file = <<SoundLine(WordA), (<<"x", UNDECODABLE>>)>>
    /\ Range(words_to_process) = {WordA, WordB}
    /\ file_mode = "w"

-----------------------------------------------------------------------------
(* Text generation: properties *)

\* C14: when the LLM request of a word is rejected with a rate-limit error,
\* text generation waits and makes the word's request at least once more
\* instead of failing the word at once.
C14_RateLimitIsRetried ==
    (rt_pc = "generated" /\ rt_client /\ llm_outcome = "RateLimitError") =>
        /\ rt_result.attempts >= 2
        /\ rt_result.slept > 0

\* the delay the claim derives from each detail: 60 * X + Y + 1 seconds for
\* 'try again in XmYs', the fallback when there is no such text
ClaimedDelay(detail) ==
    CASE detail = Detail_30s -> 31
      [] detail = Detail_1m30s -> 60 * 1 + 30 + 1
      [] detail = Detail_2m5s -> 60 * 2 + 5 + 1
      [] detail = Detail_0s -> 1
      [] detail = Detail_none -> DEFAULT_GROQ_RETRY_DELAY_SECONDS

ClaimedDetails == DetailChoices \ {Detail_1000s}

\* C15: the wait before a rate-limit retry is derived from the error detail:
\* 60 * X + Y + 1 seconds (at least 1) when the detail says 'try again in
\* XmYs', the 60-second fallback otherwise; this is what _parse_retry_after
\* computes and what the handler answers a rate-limit error with.
C15_DelayFromErrorDetail ==
    err_detail \in ClaimedDetails =>
        /\ rt_pc = "parsed" => rt_result.delay = ClaimedDelay(err_detail)
        /\ (rt_pc = "handled" /\ llm_outcome = "RateLimitError"
                /\ err_retries < MAX_GROQ_RETRIES - 1) =>
              /\ rt_result.raised = "no"
              /\ rt_result.should_retry
              /\ rt_result.delay = ClaimedDelay(err_detail)

\* C16: under persistent LLM errors text generation ends in failure after a
\* bounded number of attempts: called with retries = MAX_GROQ_RETRIES - 1 the
\* handler refuses a further retry (should_retry false, delay 0, retries
\* reported as MAX_GROQ_RETRIES), so a word is attempted at most
\* MAX_GROQ_RETRIES times and _generate_text returns None.
C16_RetriesAreBounded ==
    /\ (rt_pc = "handled" /\ err_retries = MAX_GROQ_RETRIES - 1) =>
          /\ rt_result.raised = "no"
          /\ ~rt_result.should_retry
          /\ rt_result.delay = 0
          /\ rt_result.retries = MAX_GROQ_RETRIES
    /\ (rt_pc = "generated" /\ llm_outcome \in ErrorNames) =>
          /\ rt_result.raised = "no"
          /\ ~rt_result.item
          /\ rt_result.attempts <= MAX_GROQ_RETRIES

\* what does hold of the parser alone
ParsedDelayAsClaimed ==
    (rt_pc = "parsed" /\ err_detail \in ClaimedDetails) =>
        rt_result.delay = ClaimedDelay(err_detail)

-----------------------------------------------------------------------------
(* The processing loop: properties *)

LoopEntered == app_pc = "loop" \/ app_exit \in {"exhausted", "caught", "escaped"}

\* the lines of the dequeued words whose line was written, in dequeue order
RECURSIVE StoredLines(_)
StoredLines(hs) ==
    IF hs = <<>> THEN <<>>
    ELSE IF Head(hs).stored THEN <<Head(hs).line>> \o StoredLines(Tail(hs))
    ELSE StoredLines(Tail(hs))

\* C11: the lines written to the output file during one run are, in order,
\* the lines of the successfully processed words in the order the words were
\* dequeued from the word sequence; each successful word contributes exactly
\* one line (the one exception being a word whose write itself fails, which
\* ends the run), and the lines are the last lines of the file.
C11_LinesInDequeueOrder ==
    LoopEntered =>
        /\ \A i \in DOMAIN handled : handled[i].word = words_to_process[i]
        /\ written = StoredLines(handled)
        /\ \A i \in DOMAIN handled :
              /\ handled[i].stored => handled[i].ok
              /\ (handled[i].ok /\ ~handled[i].stored) =>
                    (i = Len(handled) /\ app_exit = "escaped")
        /\ Len(written) <= Len(output_file)
        /\ SubSeq(output_file, Len(output_file) - Len(written) + 1,
                  Len(output_file)) = written

C11_Witness ==
    /\ app_exit = "exhausted"
    /\ Len(handled) = 2
    /\ handled[1].stored /\ handled[2].stored
    /\ handled[1].word # handled[2].word
    /\ written = <<handled[1].line, handled[2].line>>
    /\ written[1] # written[2]

\* C12: one word's failure never cuts the run short: whether process_word
\* returns a failure or raises, every later word of the sequence is still
\* processed and no exception escapes the processing loop.
C12_FailureNeverCutsRun ==
    (app_pc \in {"done", "SystemExit"} /\ handled # <<>>) =>
        /\ Len(handled) = Len(words_to_process)
        /\ app_pc = "done"

TextFailed(h) == h.llm # "ok" \/ h.fmt = "none"

MediaFailed(h) == h.image = "fail" \/ h.audio = "fail"

\* the failure list holds exactly the dequeued words that got no line
RECURSIVE FailedOf(_)
FailedOf(hs) ==
    IF hs = <<>> THEN <<>>
    ELSE IF Head(hs).raised = "no" /\ ~Head(hs).ok
         THEN <<Head(hs).word>> \o FailedOf(Tail(hs))
    ELSE FailedOf(Tail(hs))

\* the loop goes on after the i-th dequeued word
GoesOnAfter(i) ==
    \/ i < Len(handled)
    \/ app_pc = "loop"
    \/ app_exit = "exhausted"

\* C13 as stated: if text, audio or image generation fails for a word, the
\* word is treated as failed (listed as failed, no record written) and
\* processing continues with the next word.
C13_AnyGenerationFailureFailsWord ==
    \A i \in DOMAIN handled :
        (handled[i].raised = "no" /\ (TextFailed(handled[i]) \/ MediaFailed(handled[i])))
            => /\ ~handled[i].ok
               /\ ~handled[i].stored
               /\ handled[i].word \in Range(failed_words)
               /\ GoesOnAfter(i)

\* C13 (amended): if text generation (or the formatting of its result) fails
\* for a word, the word is treated as failed: it is listed as failed and no
\* record is written for it; if audio or image generation fails, the word's
\* record is still produced, without that tag, and the word is not listed as
\* failed; in both cases processing continues with the next word.
C13_TextFailureFailsMediaFailureDoesNot ==
    /\ failed_words = FailedOf(handled)
    /\ Len(written) = Cardinality({i \in DOMAIN handled : handled[i].stored})
    /\ \A i \in DOMAIN handled :
          LET h == handled[i]
          IN  h.raised = "no" =>
                /\ TextFailed(h) => (~h.ok /\ ~h.stored /\ GoesOnAfter(i))
                /\ ~TextFailed(h) =>
                      /\ h.ok
                      /\ (IMG_OPEN \in Range(h.line)) <=> (h.image = "ok")
                      /\ (SOUND_OPEN \in Range(h.line)) <=> (h.audio = "ok")
                      /\ h.stored => GoesOnAfter(i)

C13_Witness ==
    /\ Len(handled) = 2
    /\ app_pc = "loop"
    /\ handled[1].image = "fail" /\ handled[1].audio = "fail"
    /\ handled[1].stored
    /\ written = <<(<<"x", ";", "x">>)>>
    /\ TextFailed(handled[2])
    /\ failed_words = <<handled[2].word>>

\* the image credentials are missing or partial
NoImageCredentials == ~(cf_account /\ cf_token)

\* C18: a missing LLM API key is fatal: validation reports it and setup exits
\* the process before any word is processed; missing or partial image
\* credentials never fail the run: validation reports nothing, setup does not
\* exit over them, image generation is off, no image service is created or
\* called, no line carries an image tag, and the loop still takes every word.
C18_KeyIsFatalImageCredentialsAreNot ==
    /\ ~groq_key =>
          /\ "Groq API key is required" \in Validate(groq_key, cf_account, cf_token)
          /\ app_pc # "new" =>
                (app_pc = "SystemExit" /\ app_exit = "prerequisites" /\ handled = <<>>)
    /\ (groq_key /\ NoImageCredentials) =>
          /\ Validate(groq_key, cf_account, cf_token) = {}
          /\ app_exit # "prerequisites"
          /\ ~can_generate_images
          /\ ~ImageServiceCreated(~no_image, cf_account, cf_token)
          /\ image_calls = 0
          /\ \A i \in DOMAIN handled : handled[i].image \in {"off", "skipped"}
          /\ \A i \in DOMAIN written : IMG_OPEN \notin Range(written[i])
          /\ app_exit = "exhausted" => Len(handled) = Len(words_to_process)

C18_Witness ==
    /\ groq_key /\ cf_account /\ ~cf_token /\ ~no_image
    /\ app_exit = "exhausted"
    /\ Len(handled) = 2
    /\ Len(written) = 2
    /\ image_calls = 0

C18_WitnessNoKey ==
    /\ ~groq_key /\ cf_account /\ cf_token
    /\ app_pc = "SystemExit"
    /\ input_file # <<>>

-----------------------------------------------------------------------------
(* The GUI pipeline: properties *)

\* the cards of the words processed without error, in order
RECURSIVE CardsOf(_)
CardsOf(ds) ==
    IF ds = <<>> THEN <<>>
    ELSE AddCard(<<>>, Head(ds).word, Head(ds).outcome) \o CardsOf(Tail(ds))

\* C17: in the GUI pipeline the stop request is consulted before each word
\* (one call of the check per word processed, plus the one that stopped the
\* run); once the check has returned true no further word is processed and
\* the pipeline returns early, with None and without saving, and the cards
\* added for the earlier words stay as they were.
C17_StopIsConsultedBetweenWords ==
    /\ has_stop_callback =>
          stop_checks = Len(gui_done) + (IF stop_seen THEN 1 ELSE 0)
    /\ gui_done = [i \in 1..gui_i |-> [word |-> gui_words[i],
                                       outcome |-> gui_done[i].outcome]]
    /\ deck = CardsOf(gui_done)
    /\ stop_seen =>
          /\ gui_pc = "returned"
          /\ gui_result = "None"
          /\ ~deck_saved
          /\ Len(gui_done) = stop_checks - 1
    /\ (gui_pc = "returned" /\ ~stop_seen) =>
          (Len(gui_done) = Len(gui_words) /\ deck_saved)

C17_Witness ==
    /\ stop_seen
    /\ gui_pc = "returned"
    /\ Len(gui_words) = 3
    /\ Len(gui_done) = 1
    /\ Len(deck) = 1
    /\ stop_checks = 2

-----------------------------------------------------------------------------
(* Naming the media: properties *)

\* the characters the sanitizer keeps
KeptChars == AlnumChars \cup GermanLetters

C23_WitnessSkipped ==
    /\ nm_pc = "resumed"
    /\ nm_word = <<"ä", "_", "A">>
    /\ ~HasMarker(nm_line, SOUND_OPEN, SOUND_CLOSE)
    /\ HasMarker(nm_line, IMG_OPEN, IMG_CLOSE)
    /\ nm_next = <<>>

-----------------------------------------------------------------------------
(* The resume scan: more properties *)

HasSound(line) == HasMarker(line, SOUND_OPEN, SOUND_CLOSE)
HasImage(line) == HasMarker(line, IMG_OPEN, IMG_CLOSE)
SoundName(line) == MarkerGroup(line, SOUND_OPEN, SOUND_CLOSE)
ImageName(line) == MarkerGroup(line, IMG_OPEN, IMG_CLOSE)

\* the lines of the output whose contribution is the given name
ContributedBy(name) ==
    {i \in DOMAIN output_file :
        \/ HasSound(output_file[i]) /\ SoundName(output_file[i]) = name
        \/ ~HasSound(output_file[i]) /\ HasImage(output_file[i])
              /\ ImageName(output_file[i]) = name}

\* C22: in the resume scan each line of the existing output contributes at
\* most one identifier: the name in its first sound marker when it has one,
\* otherwise the name in its first image marker; a line with both markers
\* contributes only the audio name and a line with neither contributes
\* nothing.
C22_OneIdentifierPerLine ==
    (WPConstructed /\ output_exists /\ ~UnreadableOutput) =>
        /\ \A name \in processed_words_set : ContributedBy(name) # {}
        /\ \A i \in DOMAIN output_file :
              LET line == output_file[i]
              IN  /\ HasSound(line) => SoundName(line) \in processed_words_set
                  /\ (~HasSound(line) /\ HasImage(line)) =>
                        ImageName(line) \in processed_words_set
                  /\ (HasSound(line) /\ HasImage(line)
                        /\ ContributedBy(ImageName(line)) = {}) =>
                        ImageName(line) \notin processed_words_set
        /\ Cardinality(processed_words_set)
              <= Cardinality({i \in DOMAIN output_file :
                                 HasSound(output_file[i]) \/ HasImage(output_file[i])})

\* a line with both markers next to a line with none: only the audio name
C22_Witness ==
    /\ wp_pc = "constructed"
    /\ output_exists
    /\ output_file = <<BothLine(<<"A">>, <<"Z">>), (<<"x", ";", "x">>)>>
    /\ processed_words_set = {<<"Z">>}

-----------------------------------------------------------------------------
(* The output file handle: properties *)

LoopEnded == app_exit \in {"exhausted", "caught", "escaped"}

\* C24: within one run of the processing loop the output file is opened
\* exactly once, every line is written while that handle is open, and the
\* handle is closed and cleared when the loop ends, on every path (all words
\* done, words that failed, an exception inside the loop); a write while no
\* output file is open fails with an error and writes nothing.
C24_OneHandlePerRun ==
    /\ open_count <= 1
    /\ handle_open <=> app_pc = "loop"
    /\ (handle_open \/ LoopEnded) => open_count = 1
    /\ written # <<>> => open_count = 1
    /\ Len(written) = successful_count
    /\ LoopEnded => (~handle_open /\ app_pc \in {"done", "SystemExit"})
    /\ stray_write # "none" => stray_write = "IOError"

\* a run in which a word failed and then an exception ended the loop, and a
\* later write without a file was refused
C24_Witness ==
    /\ app_exit = "caught"
    /\ ~handle_open
    /\ open_count = 1
    /\ Len(handled) = 2
    /\ failed_words # <<>>
    /\ stray_write = "IOError"

-----------------------------------------------------------------------------
(* The processing loop: accounting *)

\* the words among those handled whose processing returned no line
RECURSIVE WordsWithoutLine(_)
WordsWithoutLine(hs) ==
    IF hs = <<>> THEN <<>>
    ELSE (IF Head(hs).ok THEN <<>> ELSE <<Head(hs).word>>)
         \o WordsWithoutLine(Tail(hs))

\* C25: after each word is handled, successful_count + len(failed_words) is
\* the number of words handled so far, successful_count is the number of
\* lines written in this run, a word is in failed_words exactly when its
\* processing returned no line, and when the loop finishes the sum equals the
\* total number of words to process.
C25_CountsAddUp ==
    /\ successful_count + Len(failed_words) = Len(handled)
    /\ successful_count = Len(written)
    /\ failed_words = WordsWithoutLine(handled)
    /\ LoopEnded => successful_count + Len(failed_words) = Len(words_to_process)

-----------------------------------------------------------------------------
(* The output file of a run: what is kept *)

IsPrefix(a, b) == Len(a) <= Len(b) /\ SubSeq(b, 1, Len(a)) = a

C27_NoWordsNoOpen ==
    [][(app_pc \in {"ready", "done"} /\ app_exit \in {"none", "no_words"}
          /\ Len(words_to_process) = 0) =>
          /\ UNCHANGED <<output_exists, output_file, handle_open, open_count,
                         successful_count, failed_words, written>>
          /\ ~handle_open /\ open_count = 0
          /\ successful_count = 0 /\ failed_words = <<>>
          /\ app_pc' \in {app_pc, "done"}]_vars

\* a resume whose only input word is already recorded has returned
C27_Witness ==
    /\ app_exit = "no_words"
    /\ original_words = <<(<<"A">>)>>
    /\ words_to_process = <<>>
    /\ output_file = <<SoundLine(<<"A">>)>>
    /\ open_count = 0
    /\ successful_count = 0

-----------------------------------------------------------------------------
(* RateLimiter._refill: properties *)

\* C28: a refill never removes tokens and never moves the last-refill time
\* backwards: at a clock reading not later than the last refill time (no time
\* elapsed, or the clock set back) it leaves the token count and the
\* timestamp unchanged; otherwise it sets tokens to min(capacity, tokens +
\* elapsed * refill_rate) and the timestamp to now.
C28_RefillNeverGoesBack ==
    rl_pc = "after_refill" =>
        /\ tokens >= call.tokens
        /\ last_refill_time >= call.last
        /\ call.at <= call.last =>
              (tokens = call.tokens /\ last_refill_time = call.last)
        /\ call.at > call.last =>
              /\ tokens = Min2(CapacityUnits, call.tokens + (call.at - call.last))
              /\ last_refill_time = call.at

\* a refill after the clock was set back behind the last refill time
C28_Witness ==
    /\ rl_pc = "after_refill"
    /\ call.at < call.last
    /\ call.tokens < CapacityUnits
    /\ tokens = call.tokens
    /\ last_refill_time = call.last

-----------------------------------------------------------------------------
(* The GUI window: properties *)

\* the workers started whose finished signal has not been handled yet
ActiveWorkers == {i \in DOMAIN wk_pc : wk_pc[i] \in {"started", "subprocess", "emitted"}}

\* the subprocesses writing the output file
Writers == {i \in DOMAIN wk_pc : wk_pc[i] = "subprocess"}

\* C29: at most one generation pipeline is active at any time in the GUI:
\* from the start of a worker until its finished signal is handled the
\* Generate button is disabled, so no second worker (second writer of the
\* output file) can be started; every worker run emits the finished signal
\* exactly once on every path (no words, subprocess success, subprocess
\* failure, exception), so the button is enabled again afterwards.
C29_OneWorkerAtATime ==
    /\ Cardinality(ActiveWorkers) <= 1
    /\ Cardinality(Writers) <= 1
    /\ btn_enabled <=> ActiveWorkers = {}
    /\ \A i \in DOMAIN wk_pc :
          /\ wk_pc[i] \in {"none", "started", "subprocess"} => wk_emits[i] = 0
          /\ wk_pc[i] \in {"emitted", "handled"} =>
                /\ wk_emits[i] = 1
                /\ wk_path[i] \in {"no_words", "success", "failure", "exception",
                                  "setup_exception"}

\* a second run is in its subprocess after a first run that failed was
\* handled and the button enabled again
C29_Witness ==
    /\ wk_started = 2
    /\ wk_pc[1] = "handled"
    /\ wk_path[1] = "failure"
    /\ wk_pc[2] = "subprocess"
    /\ ~btn_enabled

-----------------------------------------------------------------------------
(* Progress updates: properties *)

\* 100 * current / total, 0 when total is 0
ClaimedPercentage(u) ==
    IF u.total = 0 THEN Frac(0, 1) ELSE Frac(100 * u.current, u.total)

\* C30: every ProgressUpdate delivered to the progress callback satisfies
\* progress_percentage = 100 * current / total (0 when total is 0): the update
\* delivered before word i reports i/total, the one delivered after word i
\* completes reports (i+1)/total, and 100% is reached after the last word.
C30_PercentageFollowsCurrent ==
    /\ \A k \in DOMAIN pr_delivered :
          /\ FracEq(pr_delivered[k].progress_percentage,
                    ClaimedPercentage(pr_delivered[k]))
          /\ pr_delivered[k].current = k \div 2
    /\ (pr_pc = "returned" /\ pr_delivered # <<>>) =>
          FracEq(pr_delivered[Len(pr_delivered)].progress_percentage, Frac(100, 1))

\* the percentage every delivered update does carry: that of the index the
\* iteration began with
DeliveredPercentageIsOfStart ==
    \A k \in DOMAIN pr_delivered :
        FracEq(pr_delivered[k].progress_percentage,
               Frac(100 * ((k - 1) \div 2), pr_delivered[k].total))

====
